---- MODULE Spec2Model ----
(***************************************************************************)
(* A model of instantly-go, a Go client of the Instantly.ai REST API.      *)
(*                                                                         *)
(* Two revisions of the one source file are modelled: src/instantly.go     *)
(* (transport helpers call/get/post) and src/unnamed/part_001 (transport   *)
(* helpers getWithQueries/getWithBody).  The variable rev says which one   *)
(* a behaviour runs.                                                       *)
(*                                                                         *)
(* A Go string is a sequence of tokens.  The characters that URL and       *)
(* query parsing look at ("/", "?", "#", "&", "=", ":", " ", "%", a        *)
(* control character, a decimal digit) are always tokens of their own;     *)
(* every other token stands for a run of characters holding none of them.  *)
(***************************************************************************)
EXTENDS Integers, Sequences, FiniteSets, TLC

\* ------------------------------------------------------------- revisions

InstantlyGo == "instantly.go"
Part001 == "part_001"
Revisions == {InstantlyGo, Part001}

\* ---------------------------------------------------------------- bounds

\* The API versions handed to WithApiVersion range over -1..MaxVersion.
MaxVersion == 2
\* The longest option list handed to New.
MaxOpts == 2
\* The goroutines that call one client, the calls they issue in all, and the
\* last tick the clock reaches while no caller waits for it.
NumCallers == 2
MaxCalls == 3
MaxClock == 4
\* The intervals a rate limiter that sat unused carries over.
MaxSlack == 1

\* --------------------------------------------------------------- strings

CTL == "\n"
BadEscape == "%"
DigitTok == <<"0", "1", "2", "3", "4", "5", "6", "7", "8", "9">>
Digits == {DigitTok[i] : i \in 1..10}

Contains(s, t) == \E i \in 1..Len(s) : s[i] = t

\* The index of the first t in s, 0 when there is none.
IndexOf(s, t) ==
  IF Contains(s, t) THEN CHOOSE i \in 1..Len(s) : s[i] = t /\ \A j \in 1..(i - 1) : s[j] # t
  ELSE 0

LastIndexOf(s, t) ==
  IF Contains(s, t) THEN CHOOSE i \in 1..Len(s) : s[i] = t /\ \A j \in (i + 1)..Len(s) : s[j] # t
  ELSE 0

\* strings.Cut(s, t)
Cut(s, t) ==
  LET i == IndexOf(s, t)
  IN IF i = 0 THEN [found |-> FALSE, before |-> s, after |-> <<>>]
     ELSE [found |-> TRUE, before |-> SubSeq(s, 1, i - 1), after |-> SubSeq(s, i + 1, Len(s))]

HasPrefix(s, p) == Len(s) >= Len(p) /\ SubSeq(s, 1, Len(p)) = p

\* Whether sub occurs in s as a run of consecutive tokens.
HasSubstring(s, sub) ==
  \E i \in 0..(Len(s) - Len(sub)) : SubSeq(s, i + 1, i + Len(sub)) = sub

RECURSIVE Join(_, _)
Join(parts, sep) ==
  IF Len(parts) = 0 THEN <<>>
  ELSE IF Len(parts) = 1 THEN <<parts[1]>>
  ELSE <<parts[1], sep>> \o Join(Tail(parts), sep)

\* s split at every token sep: strings.Split(s, sep).
RECURSIVE Split(_, _)
Split(s, sep) ==
  LET c == Cut(s, sep)
  IN IF c.found THEN <<c.before>> \o Split(c.after, sep) ELSE <<s>>

\* strconv.Itoa, and fmt's %d of an int.
RECURSIVE NatDigits(_)
NatDigits(n) ==
  IF n < 10 THEN <<DigitTok[n + 1]>> ELSE NatDigits(n \div 10) \o <<DigitTok[(n % 10) + 1]>>

Itoa(n) == IF n < 0 THEN <<"-">> \o NatDigits(-n) ELSE NatDigits(n)

\* ------------------------------------------------------------------ URLs

Scheme == <<"https", ":", "/", "/">>

\* net/url's validOptionalPort: "" or ":" followed by digits only.
ValidOptionalPort(colonPort) ==
  \/ colonPort = <<>>
  \/ colonPort[1] = ":" /\ \A i \in 2..Len(colonPort) : colonPort[i] \in Digits

\* net/url's parseHost on an authority without userinfo: the port after the
\* last ":" must be digits, and no character may be one a host cannot hold.
ValidAuthority(a) ==
  LET i == LastIndexOf(a, ":")
      colonPort == IF i = 0 THEN <<>> ELSE SubSeq(a, i, Len(a))
  IN /\ ValidOptionalPort(colonPort)
     /\ \A j \in 1..Len(a) : a[j] \notin {" ", BadEscape, CTL, "/", "?", "#"}

\* url.Parse of an https URL, as http.NewRequest runs it: a control character
\* anywhere is refused; the fragment is cut at the first "#", the query at the
\* first "?", the authority ends at the first "/"; the authority, the path and
\* the fragment are validated, the raw query is not.
ParseUrl(u) ==
  LET f == Cut(u, "#")
      q == Cut(f.before, "?")
      rest == SubSeq(q.before, Len(Scheme) + 1, Len(q.before))
      s == IndexOf(rest, "/")
      authority == IF s = 0 THEN rest ELSE SubSeq(rest, 1, s - 1)
      path == IF s = 0 THEN <<>> ELSE SubSeq(rest, s, Len(rest))
      ok == /\ ~Contains(u, CTL)
            /\ HasPrefix(u, Scheme)
            /\ ValidAuthority(authority)
            /\ ~Contains(path, BadEscape)
            /\ ~Contains(f.after, BadEscape)
  IN [ok |-> ok, host |-> authority, path |-> path, rawQuery |-> q.after,
      fragment |-> f.after]

\* The error of url.Parse, which quotes the URL it refused.
ParseError(u) == <<"parse ">> \o u \o <<": invalid URL">>

\* ---------------------------------------------------------------- errors

NoError == <<>>
Err(msg) == <<msg>>
\* errors.New(prefix + ": " + err.Error())
Wrap(prefix, err) == <<prefix, ": ">> \o err

\* --------------------------------------------------------------- options

\* A nil *ratelimit.Limiter, a limiter of the caller's (id >= 1) and the one
\* New makes (a fresh id).  rate is requests per second.
NilLimiter == [nil |-> TRUE, id |-> 0, rate |-> 0]
Limiter(id, rate) == [nil |-> FALSE, id |-> id, rate |-> rate]
DefaultRate == 10

\* A nil *http.Client, http.DefaultClient (id 0) and a copy of the caller's.
NilHttpClient == [nil |-> TRUE, id |-> 0]
DefaultHttpClient == [nil |-> FALSE, id |-> 0]
HttpClientCopy(id) == [nil |-> FALSE, id |-> id]

DefaultHost == <<"api.instantly.ai">>
DefaultApiVersion == 1

\* &options{}: apiVersion is an int in instantly.go and a *int in part_001,
\* where apiVersionPtr is the address it holds, 0 when nil.
ZeroOptions ==
  [host |-> <<>>, apiVersion |-> 0, apiVersionPtr |-> 0, rateLimit |-> NilLimiter,
   httpClient |-> NilHttpClient]

WithHost(host) == [opt |-> "WithHost", host |-> host, version |-> 0, handle |-> 0, rate |-> 0]
WithApiVersion(version) ==
  [opt |-> "WithApiVersion", host |-> <<>>, version |-> version, handle |-> 0, rate |-> 0]
WithRateLimit(id, rate) ==
  [opt |-> "WithRateLimit", host |-> <<>>, version |-> 0, handle |-> id, rate |-> rate]
WithHttpClient(id) ==
  [opt |-> "WithHttpClient", host |-> <<>>, version |-> 0, handle |-> id, rate |-> 0]

\* What running an Option on o gives: the options and the error.
ApplyWithHost(o, host) ==
  LET u == Scheme \o host
  IN IF ~ParseUrl(u).ok THEN [o |-> o, err |-> Wrap("invalid host", ParseError(u))]
     ELSE [o |-> [o EXCEPT !.host = host], err |-> NoError]

\* A WithApiVersion that sets the version and forgets the host.
ApplyWithApiVersionOnly(r, o, version, addr) ==
  IF version < 1
  THEN [o |-> o, err |-> Wrap("invalid api version", Itoa(version))]
  ELSE [o |-> [ZeroOptions EXCEPT !.apiVersion = version, !.apiVersionPtr = addr,
                                  !.rateLimit = o.rateLimit, !.httpClient = o.httpClient],
        err |-> NoError]

\* addr is the address of the option's version variable (part_001 only).
ApplyWithApiVersion(r, o, version, addr) ==
  IF r = InstantlyGo
  THEN IF version < 1
       THEN [o |-> o, err |-> Wrap("invalid api version", Itoa(version))]
       ELSE [o |-> [o EXCEPT !.apiVersion = version], err |-> NoError]
  ELSE [o |-> [o EXCEPT !.apiVersion = version, !.apiVersionPtr = addr], err |-> NoError]

ApplyWithRateLimit(o, id, rate) ==
  [o |-> [o EXCEPT !.rateLimit = Limiter(id, rate)], err |-> NoError]

ApplyWithHttpClient(o, id) ==
  [o |-> [o EXCEPT !.httpClient = HttpClientCopy(id)], err |-> NoError]

ApplyOption(r, o, opt, addr) ==
  CASE opt.opt = "WithHost" -> ApplyWithHost(o, opt.host)
    [] opt.opt = "WithApiVersion" -> ApplyWithApiVersion(r, o, opt.version, addr)
    [] opt.opt = "WithRateLimit" -> ApplyWithRateLimit(o, opt.handle, opt.rate)
    [] OTHER -> ApplyWithHttpClient(o, opt.handle)

\* A loop that runs every option and reports the last failure.
RECURSIVE ApplyOptionsToTheEnd(_, _, _, _, _)
ApplyOptionsToTheEnd(r, o, opts, i, addr) ==
  IF i > Len(opts) THEN [o |-> o, err |-> NoError, applied |-> Len(opts)]
  ELSE LET a == ApplyOption(r, o, opts[i], addr)
           rest == ApplyOptionsToTheEnd(r, a.o, opts, i + 1, addr)
       IN IF rest.err # NoError THEN rest
          ELSE IF a.err # NoError THEN [o |-> o, err |-> a.err, applied |-> i - 1]
          ELSE rest

\* The loop of New over opts[i..]: it stops at the first option that fails.
\* applied counts the options run without error.
RECURSIVE ApplyOptions(_, _, _, _, _)
ApplyOptions(r, o, opts, i, addr) ==
  IF i > Len(opts) THEN [o |-> o, err |-> NoError, applied |-> Len(opts)]
  ELSE LET a == ApplyOption(r, o, opts[i], addr)
       IN IF a.err # NoError THEN [o |-> o, err |-> a.err, applied |-> i - 1]
          ELSE ApplyOptions(r, a.o, opts, i + 1, addr)

\* ---------------------------------------------------------------- client

NoClient == [nil |-> TRUE, apiKey |-> <<>>, options |-> ZeroOptions]

\* Defaults that hand every client one limiter of the process, the way they
\* hand every client http.DefaultClient.
SetDefaultsShared(r, o, fresh, addr) ==
  LET o1 == IF o.host = <<>> THEN [o EXCEPT !.host = DefaultHost] ELSE o
      unset == IF r = InstantlyGo THEN o1.apiVersion = 0 ELSE o1.apiVersionPtr = 0
      o2 == IF ~unset THEN o1
            ELSE [o1 EXCEPT !.apiVersion = DefaultApiVersion,
                            !.apiVersionPtr = IF r = InstantlyGo THEN 0 ELSE addr]
      o3 == IF o2.rateLimit.nil THEN [o2 EXCEPT !.rateLimit = Limiter(0, DefaultRate)]
            ELSE o2
  IN IF o3.httpClient.nil THEN [o3 EXCEPT !.httpClient = DefaultHttpClient] ELSE o3

\* The defaults New sets after the options ran.  fresh is the id of the
\* limiter ratelimit.New makes, addr the address new(int) returns.
SetDefaults(r, o, fresh, addr) ==
  LET o1 == IF o.host = <<>> THEN [o EXCEPT !.host = DefaultHost] ELSE o
      unset == IF r = InstantlyGo THEN o1.apiVersion = 0 ELSE o1.apiVersionPtr = 0
      o2 == IF ~unset THEN o1
            ELSE [o1 EXCEPT !.apiVersion = DefaultApiVersion,
                            !.apiVersionPtr = IF r = InstantlyGo THEN 0 ELSE addr]
      o3 == IF o2.rateLimit.nil THEN [o2 EXCEPT !.rateLimit = Limiter(fresh, DefaultRate)]
            ELSE o2
  IN IF o3.httpClient.nil THEN [o3 EXCEPT !.httpClient = DefaultHttpClient] ELSE o3

\* New once its option loop has returned a.
NewClient(r, apiKey, a, fresh, addr) ==
  IF a.err # NoError THEN [client |-> NoClient, err |-> a.err, applied |-> a.applied]
  ELSE [client |-> [nil |-> FALSE, apiKey |-> apiKey,
                    options |-> SetDefaults(r, a.o, fresh, addr)],
        err |-> NoError, applied |-> a.applied]

New(r, apiKey, opts, fresh, addr) ==
  NewClient(r, apiKey, ApplyOptions(r, ZeroOptions, opts, 1, addr), fresh, addr)

\* ------------------------------------------------------------ URL building

\* A %d handed the address of the version in place of the version.
FormatApiVersionOfPointer(r, o) == Itoa(o.apiVersionPtr)

\* fmt's %d of c.options.apiVersion: the int, or in part_001 the address the
\* *int holds.
FormatApiVersion(r, o) == IF r = InstantlyGo THEN Itoa(o.apiVersion) ELSE Itoa(o.apiVersionPtr)

buildBodyUrl(r, c, path) ==
  Scheme \o c.options.host \o <<"/", "api", "/", "v">> \o FormatApiVersion(r, c.options)
    \o <<"/">> \o path

param(key, value) == [key |-> key, value |-> value]

RECURSIVE AppendParams(_, _)
AppendParams(url, params) ==
  IF params = <<>> THEN url
  ELSE AppendParams(url \o <<"&">> \o params[1].key \o <<"=">> \o params[1].value, Tail(params))

buildQueryUrl(r, c, path, params) ==
  AppendParams(buildBodyUrl(r, c, path) \o <<"?", "api_key", "=">> \o c.apiKey, params)

\* ------------------------------------------------------------------ JSON

(***************************************************************************)
(* A JSON document is a tree.  An object is the sequence of its members,   *)
(* in the order of the text, so that a text with a repeated key is a       *)
(* document too.  A number is an integer sign * (hi * 2^30 + lo); bytes    *)
(* that are not JSON are the document JInvalid.                            *)
(***************************************************************************)
LimbBase == 2 ^ 30
\* hi of 2^53 and of 2^54.
Hi53 == 2 ^ 23
Hi54 == 2 ^ 24

JInvalid == [kind |-> "invalid"]
\* A nil []byte, and the nil io.Reader of a request without a body.
NilData == [kind |-> "nil"]
NoBody == [kind |-> "none"]
JNull == [kind |-> "null"]
JBool(b) == [kind |-> "bool", b |-> b]
JNum(neg, hi, lo) == [kind |-> "number", neg |-> neg, hi |-> hi, lo |-> lo]
JInt(n) == JNum(n < 0, 0, IF n < 0 THEN -n ELSE n)
JStr(s) == [kind |-> "string", s |-> s]
JArr(items) == [kind |-> "array", items |-> items]
JObj(members) == [kind |-> "object", members |-> members]
Member(key, val) == [key |-> key, val |-> val]

\* Every member name of the model, in the byte order Go sorts map keys by.
KeyOrder ==
  <<"0", "1", "2", "3", "4", "5", "6", "account_list", "accounts", "api_key",
    "campaign_id", "company_name", "custom_variables", "days", "delete_all_from_company",
    "delete_list", "email", "end_date", "entries", "first_name", "from", "last_name",
    "leads", "n", "name", "new_status", "personalization", "phone", "s", "schedules",
    "start_date", "timezone", "timing", "to", "variables", "website">>
Rank(key) == CHOOSE i \in 1..Len(KeyOrder) : KeyOrder[i] = key

HasKey(members, key) == \E i \in 1..Len(members) : members[i].key = key

\* The value of the last member named key (encoding/json lets the last win).
Lookup(members, key) ==
  members[CHOOSE i \in 1..Len(members) :
            members[i].key = key /\ \A j \in (i + 1)..Len(members) : members[j].key # key].val

\* The members with distinct keys, sorted by key: what Marshal writes for a
\* map that holds them.
RECURSIVE SortedMembers(_, _)
SortedMembers(members, from) ==
  IF from > Len(KeyOrder) THEN <<>>
  ELSE (IF HasKey(members, KeyOrder[from])
        THEN <<Member(KeyOrder[from], Lookup(members, KeyOrder[from]))>> ELSE <<>>)
       \o SortedMembers(members, from + 1)

\* strconv.ParseFloat of an integer literal: the nearest float64, ties to the
\* even mantissa.  Below 2^53 every integer is a float64; from 2^53 to 2^54 the
\* float64s are the even integers.
RoundToFloat64(n) ==
  IF n.hi < Hi53 \/ n.lo % 2 = 0 THEN n
  ELSE IF ((n.lo - 1) \div 2) % 2 = 0 THEN [n EXCEPT !.lo = n.lo - 1]
  ELSE IF n.lo + 1 = LimbBase THEN [n EXCEPT !.hi = n.hi + 1, !.lo = 0]
  ELSE [n EXCEPT !.lo = n.lo + 1]

\* ------------------------------------------------------------- Go values

(***************************************************************************)
(* A Go value carries its type, as reflect sees it.  A struct is the       *)
(* sequence of its fields with their json tags.                            *)
(***************************************************************************)
GoString(s) == [t |-> "string", s |-> s]
GoBool(b) == [t |-> "bool", b |-> b]
GoInt(neg, hi, lo) == [t |-> "int", neg |-> neg, hi |-> hi, lo |-> lo]
\* A float64 whose value is an integer below 2^54.
GoFloat64(neg, hi, lo) == [t |-> "float64", neg |-> neg, hi |-> hi, lo |-> lo]
GoSlice(items) == [t |-> "slice", nil |-> FALSE, items |-> items]
GoNilSlice == [t |-> "slice", nil |-> TRUE, items |-> <<>>]
\* A map is the sequence of its entries, one per key.
GoMap(entries) == [t |-> "map", nil |-> FALSE, entries |-> entries]
GoNilMap == [t |-> "map", nil |-> TRUE, entries |-> <<>>]
GoStruct(fields) == [t |-> "struct", fields |-> fields]
\* A nil interface value or a nil pointer.
GoNil == [t |-> "nil"]
\* A value json.Marshal refuses: a channel, a function, a NaN.
GoUnsupported == [t |-> "unsupported"]
Field(key, omitempty, val) == [key |-> key, omitempty |-> omitempty, val |-> val]

\* encoding/json's isEmptyValue.
IsEmptyValue(v) ==
  CASE v.t = "string" -> v.s = <<>>
    [] v.t = "bool" -> ~v.b
    [] v.t \in {"int", "float64"} -> v.hi = 0 /\ v.lo = 0
    [] v.t \in {"slice", "map"} -> v.nil \/ (IF v.t = "slice" THEN v.items ELSE v.entries) = <<>>
    [] v.t = "nil" -> TRUE
    [] OTHER -> FALSE

\* Whether json.Marshal(v) succeeds.
RECURSIVE Marshalable(_)
Marshalable(v) ==
  CASE v.t = "unsupported" -> FALSE
    [] v.t = "slice" -> \A i \in 1..Len(v.items) : Marshalable(v.items[i])
    [] v.t = "map" -> \A i \in 1..Len(v.entries) : Marshalable(v.entries[i].val)
    [] v.t = "struct" ->
         \A i \in 1..Len(v.fields) :
           (v.fields[i].omitempty /\ IsEmptyValue(v.fields[i].val)) \/ Marshalable(v.fields[i].val)
    [] OTHER -> TRUE

RECURSIVE MarshalFields(_, _)
RECURSIVE MarshalItems(_, _)
RECURSIVE MarshalEntries(_, _)
RECURSIVE Marshal(_)
\* json.Marshal of a marshalable v: a struct writes its fields in order, leaving
\* out the empty omitempty ones; a map writes its keys sorted; a nil slice, map,
\* pointer or interface is null; an int is written in full, and so is a float64
\* that is an integer below 2^54 (its shortest decimal form is the integer).
Marshal(v) ==
  CASE v.t = "string" -> JStr(v.s)
    [] v.t = "bool" -> JBool(v.b)
    [] v.t \in {"int", "float64"} -> JNum(v.neg, v.hi, v.lo)
    [] v.t = "slice" -> IF v.nil THEN JNull ELSE JArr(MarshalItems(v.items, 1))
    [] v.t = "map" ->
         IF v.nil THEN JNull ELSE JObj(SortedMembers(MarshalEntries(v.entries, 1), 1))
    [] v.t = "struct" -> JObj(MarshalFields(v.fields, 1))
    [] OTHER -> JNull
MarshalItems(items, i) ==
  IF i > Len(items) THEN <<>> ELSE <<Marshal(items[i])>> \o MarshalItems(items, i + 1)
MarshalEntries(entries, i) ==
  IF i > Len(entries) THEN <<>>
  ELSE <<Member(entries[i].key, Marshal(entries[i].val))>> \o MarshalEntries(entries, i + 1)
MarshalFields(fields, i) ==
  IF i > Len(fields) THEN <<>>
  ELSE (IF fields[i].omitempty /\ IsEmptyValue(fields[i].val) THEN <<>>
        ELSE <<Member(fields[i].key, Marshal(fields[i].val))>>)
       \o MarshalFields(fields, i + 1)

RECURSIVE UnmarshalAnyItems(_, _)
RECURSIVE UnmarshalAnyMembers(_, _)
RECURSIVE UnmarshalAny(_)
\* json.Unmarshal of the valid document j into an interface{}: a number becomes
\* a float64, an array a []interface{}, an object a map[string]interface{} that
\* keeps the last of equal keys.
UnmarshalAny(j) ==
  CASE j.kind = "null" -> GoNil
    [] j.kind = "bool" -> GoBool(j.b)
    [] j.kind = "number" -> LET f == RoundToFloat64(j) IN GoFloat64(f.neg, f.hi, f.lo)
    [] j.kind = "string" -> GoString(j.s)
    [] j.kind = "array" -> GoSlice(UnmarshalAnyItems(j.items, 1))
    [] OTHER -> GoMap(UnmarshalAnyMembers(j.members, 1))
UnmarshalAnyItems(items, i) ==
  IF i > Len(items) THEN <<>>
  ELSE <<UnmarshalAny(items[i])>> \o UnmarshalAnyItems(items, i + 1)
UnmarshalAnyMembers(members, i) ==
  IF i > Len(members) THEN <<>>
  ELSE (IF \E j \in (i + 1)..Len(members) : members[j].key = members[i].key THEN <<>>
        ELSE <<Member(members[i].key, UnmarshalAny(members[i].val))>>)
       \o UnmarshalAnyMembers(members, i + 1)

\* m[key] = val on a map that is not nil.
MapSet(m, key, val) ==
  IF HasKey(m.entries, key)
  THEN [m EXCEPT !.entries = [i \in 1..Len(m.entries) |->
                                IF m.entries[i].key = key THEN Member(key, val)
                                ELSE m.entries[i]]]
  ELSE [m EXCEPT !.entries = Append(m.entries, Member(key, val))]

\* ------------------------------------------------------ decoding a response

\* The types json.Unmarshal decodes a response into.
TString == [t |-> "string"]
TInt == [t |-> "int"]
TBool == [t |-> "bool"]
TSlice(elem) == [t |-> "slice", elem |-> elem]
TStringMap == [t |-> "map"]
TPtr(elem) == [t |-> "ptr", elem |-> elem]
\* A struct type: the sequence of its fields, each a json key and a type.
TStruct(fields) == [t |-> "struct", fields |-> fields]
TField(key, type) == [key |-> key, type |-> type]

RECURSIVE ZeroFields(_, _)
RECURSIVE Zero(_)
\* The zero value of a type.
Zero(type) ==
  CASE type.t = "string" -> GoString(<<>>)
    [] type.t = "int" -> GoInt(FALSE, 0, 0)
    [] type.t = "bool" -> GoBool(FALSE)
    [] type.t = "slice" -> GoNilSlice
    [] type.t = "map" -> GoNilMap
    [] type.t = "ptr" -> GoNil
    [] OTHER -> GoStruct(ZeroFields(type.fields, 1))
ZeroFields(fields, i) ==
  IF i > Len(fields) THEN <<>>
  ELSE <<Field(fields[i].key, FALSE, Zero(fields[i].type))>> \o ZeroFields(fields, i + 1)

\* The value of the field of struct value v whose json key is key.
Get(v, key) == v.fields[CHOOSE i \in 1..Len(v.fields) : v.fields[i].key = key].val

\* strings.EqualFold on member names: the lower-case form of a name.
FoldKey(key) ==
  CASE key \in {"Status", "STATUS"} -> "status"
    [] key = "Domain" -> "domain"
    [] key = "Mx" -> "mx"
    [] key = "Spf" -> "spf"
    [] key = "Dkim" -> "dkim"
    [] key = "Dmarc" -> "dmarc"
    [] OTHER -> key

\* The index of the struct field a member named key is decoded into, 0 when
\* there is none: the field of that name, else the one equal to it under case
\* folding.
FieldIndex(fields, key) ==
  IF \E i \in 1..Len(fields) : fields[i].key = key
  THEN CHOOSE i \in 1..Len(fields) : fields[i].key = key
  ELSE IF \E i \in 1..Len(fields) : FoldKey(fields[i].key) = FoldKey(key)
  THEN CHOOSE i \in 1..Len(fields) :
         FoldKey(fields[i].key) = FoldKey(key)
         /\ \A j \in 1..(i - 1) : FoldKey(fields[j].key) # FoldKey(key)
  ELSE 0

TypeError == <<"json: cannot unmarshal into Go value">>
SyntaxError == <<"invalid character looking for beginning of value">>
InvalidUnmarshalError == <<"json: Unmarshal(nil)">>
UnsupportedTypeError == <<"json: unsupported type">>

\* The first error of two: decoding goes on after a type error and reports
\* the first one.
FirstError(e1, e2) == IF e1 # NoError THEN e1 ELSE e2

RECURSIVE DecodeItems(_, _, _)
RECURSIVE DecodeMembers(_, _, _, _)
RECURSIVE DecodeMapMembers(_, _)
RECURSIVE Decode(_, _, _)
\* Decoding the valid document j into a value of the given type that holds cur:
\* the value it holds afterwards, and the first type error.  null empties a
\* slice, a map and a pointer and leaves every other value alone; a document of
\* the wrong kind leaves the value alone and is a type error.
Decode(j, type, cur) ==
  CASE j.kind = "null" ->
         [val |-> IF type.t \in {"slice", "map", "ptr"} THEN Zero(type) ELSE cur, err |-> NoError]
    [] type.t = "ptr" ->
         Decode(j, type.elem, IF cur.t = "nil" THEN Zero(type.elem) ELSE cur)
    [] type.t = "string" /\ j.kind = "string" -> [val |-> GoString(j.s), err |-> NoError]
    [] type.t = "int" /\ j.kind = "number" -> [val |-> GoInt(j.neg, j.hi, j.lo), err |-> NoError]
    [] type.t = "bool" /\ j.kind = "bool" -> [val |-> GoBool(j.b), err |-> NoError]
    [] type.t = "slice" /\ j.kind = "array" ->
         LET d == DecodeItems(j.items, type.elem, 1)
         IN [val |-> GoSlice(d.vals), err |-> d.err]
    [] type.t = "map" /\ j.kind = "object" ->
         LET d == DecodeMapMembers(j.members, 1)
         IN [val |-> GoMap(d.vals), err |-> d.err]
    [] type.t = "struct" /\ j.kind = "object" -> DecodeMembers(j.members, type, cur, 1)
    [] OTHER -> [val |-> cur, err |-> TypeError]
DecodeItems(items, elem, i) ==
  IF i > Len(items) THEN [vals |-> <<>>, err |-> NoError]
  ELSE LET d == Decode(items[i], elem, Zero(elem))
           rest == DecodeItems(items, elem, i + 1)
       IN [vals |-> <<d.val>> \o rest.vals, err |-> FirstError(d.err, rest.err)]
\* The members of an object decoded into a map[string]string, the last of equal
\* keys kept.
DecodeMapMembers(members, i) ==
  IF i > Len(members) THEN [vals |-> <<>>, err |-> NoError]
  ELSE LET d == Decode(members[i].val, TString, GoString(<<>>))
           rest == DecodeMapMembers(members, i + 1)
       IN [vals |-> (IF HasKey(rest.vals, members[i].key) THEN <<>>
                     ELSE <<Member(members[i].key, d.val)>>) \o rest.vals,
           err |-> FirstError(d.err, rest.err)]
\* The members from the i-th on decoded, in order, into the struct value cur.
DecodeMembers(members, type, cur, i) ==
  IF i > Len(members) THEN [val |-> cur, err |-> NoError]
  ELSE LET f == FieldIndex(type.fields, members[i].key)
       IN IF f = 0 THEN DecodeMembers(members, type, cur, i + 1)
          ELSE LET d == Decode(members[i].val, type.fields[f].type, cur.fields[f].val)
                   next == [cur EXCEPT !.fields[f].val = d.val]
                   rest == DecodeMembers(members, type, next, i + 1)
               IN [val |-> rest.val, err |-> FirstError(d.err, rest.err)]

\* How an endpoint method hands its target to json.Unmarshal.
\*   Allocated  a pointer to a value that exists (&T{}, or &v of a variable v)
\*   NilPointer a nil *T, passed as it is
\*   PtrToNil   &p of a nil *T variable p: Unmarshal allocates, unless data is null
Allocated == "allocated"
NilPointer == "nil pointer"
PtrToNil == "pointer to nil pointer"

\* json.Unmarshal(data, target): the error, and the value the target variable
\* holds afterwards (GoNil: the pointer is nil).  The syntax of data is checked
\* first, then the target.
Unmarshal(data, style, type) ==
  IF data.kind \in {"invalid", "nil"} THEN
    [err |-> SyntaxError, val |-> IF style = Allocated THEN Zero(type) ELSE GoNil]
  ELSE IF style = NilPointer THEN [err |-> InvalidUnmarshalError, val |-> GoNil]
  ELSE LET d == Decode(data, IF style = PtrToNil THEN TPtr(type) ELSE type,
                       IF style = PtrToNil THEN GoNil ELSE Zero(type))
       IN [err |-> d.err, val |-> d.val]

\* ------------------------------------------------------------------ time

\* A time.Time: a wall clock reading in a zone offset minutes east of UTC.
Time(year, month, day, hour, min, sec) ==
  [year |-> year, month |-> month, day |-> day, hour |-> hour, min |-> min, sec |-> sec,
   offset |-> 0]
ZeroTime == Time(1, 1, 1, 0, 0, 0)

DigitVal(tok) == CHOOSE n \in 0..9 : DigitTok[n + 1] = tok
IsDigits(s) == \A i \in 1..Len(s) : s[i] \in Digits

\* The value of a run of decimal digits.
RECURSIVE Atoi(_)
Atoi(s) == IF s = <<>> THEN 0 ELSE 10 * Atoi(SubSeq(s, 1, Len(s) - 1)) + DigitVal(s[Len(s)])

Pad2(n) == <<DigitTok[(n \div 10) + 1], DigitTok[(n % 10) + 1]>>
Pad4(n) == Pad2(n \div 100) \o Pad2(n % 100)

\* Time.Format("2006-01-02"), Time.Format("01-02-2006") and Time.Format("15:04").
FormatYMD(t) == Pad4(t.year) \o <<"-">> \o Pad2(t.month) \o <<"-">> \o Pad2(t.day)

\* Time.Format("02-01-2006"): the day before the month.
FormatDMY(t) == Pad2(t.day) \o <<"-">> \o Pad2(t.month) \o <<"-">> \o Pad4(t.year)
FormatMDY(t) == Pad2(t.month) \o <<"-">> \o Pad2(t.day) \o <<"-">> \o Pad4(t.year)

\* Time.Format("03:04"): the hour on the twelve-hour clock.
FormatHM12(t) ==
  Pad2(IF t.hour % 12 = 0 THEN 12 ELSE t.hour % 12) \o <<":">> \o Pad2(t.min)
FormatHM(t) == Pad2(t.hour) \o <<":">> \o Pad2(t.min)

IsLeap(year) == year % 4 = 0 /\ (year % 100 # 0 \/ year % 400 = 0)
DaysIn(year, month) ==
  IF month = 2 THEN (IF IsLeap(year) THEN 29 ELSE 28)
  ELSE IF month \in {4, 6, 9, 11} THEN 30 ELSE 31

\* time.Parse(time.RFC3339, s) of a stamp without fractional seconds:
\* YYYY-MM-DDTHH:MM:SS followed by Z or by a +HH:MM or -HH:MM offset.
ParseRFC3339(s) ==
  LET shape == /\ Len(s) \in {20, 25}
               /\ s[5] = "-" /\ s[8] = "-" /\ s[11] = "T" /\ s[14] = ":" /\ s[17] = ":"
               /\ IsDigits(SubSeq(s, 1, 4)) /\ IsDigits(SubSeq(s, 6, 7))
               /\ IsDigits(SubSeq(s, 9, 10)) /\ IsDigits(SubSeq(s, 12, 13))
               /\ IsDigits(SubSeq(s, 15, 16)) /\ IsDigits(SubSeq(s, 18, 19))
               /\ IF Len(s) = 20 THEN s[20] = "Z"
                  ELSE /\ s[20] \in {"+", "-"} /\ s[23] = ":"
                       /\ IsDigits(SubSeq(s, 21, 22)) /\ IsDigits(SubSeq(s, 24, 25))
      year == Atoi(SubSeq(s, 1, 4))
      month == Atoi(SubSeq(s, 6, 7))
      day == Atoi(SubSeq(s, 9, 10))
      hour == Atoi(SubSeq(s, 12, 13))
      min == Atoi(SubSeq(s, 15, 16))
      sec == Atoi(SubSeq(s, 18, 19))
      zh == IF Len(s) = 25 THEN Atoi(SubSeq(s, 21, 22)) ELSE 0
      zm == IF Len(s) = 25 THEN Atoi(SubSeq(s, 24, 25)) ELSE 0
      ok == /\ shape
            /\ month \in 1..12 /\ day \in 1..DaysIn(year, month)
            /\ hour < 24 /\ min < 60 /\ sec < 60 /\ zh < 24 /\ zm < 60
  IN IF ok
     THEN [ok |-> TRUE,
           time |-> [Time(year, month, day, hour, min, sec) EXCEPT
                       !.offset = (IF s[20] = "-" THEN -1 ELSE 1) * (60 * zh + zm)]]
     ELSE [ok |-> FALSE, time |-> ZeroTime]

TimeParseError == <<"parsing time: cannot parse">>

\* ------------------------------------------------------------- transport

(***************************************************************************)
(* What the HTTP client and the server do with a request is the input t:   *)
(* Do fails, reading the body fails, or the body is read and is t.bytes.   *)
(* A transport helper returns the data and the error, and with them what   *)
(* it did: events, the limiter acquisitions ("Take") and dispatches ("Do") *)
(* in order, req, the request it dispatched, and panicked.                 *)
(***************************************************************************)
DoFails == [kind |-> "DoError", bytes |-> NilData]
ReadFails == [kind |-> "ReadError", bytes |-> NilData]
Responds(bytes) == [kind |-> "Bytes", bytes |-> bytes]

NoRequest == [sent |-> FALSE, method |-> "", url |-> <<>>, body |-> NoBody, contentType |-> ""]
Request(method, url, body, contentType) ==
  [sent |-> TRUE, method |-> method, url |-> url, body |-> body, contentType |-> contentType]

Outcome(data, err, events, req) ==
  [data |-> data, err |-> err, events |-> events, req |-> req, panicked |-> FALSE]
\* A run-time panic: the call does not return.
Panic(events, req) ==
  [data |-> NilData, err |-> NoError, events |-> events, req |-> req, panicked |-> TRUE]

\* The *url.Error of http.Client.Do, which quotes the method and the URL.
DoError(method, url) == <<method, " ">> \o url \o <<": connection refused">>
ReadError == <<"unexpected EOF">>

\* http.Client.Do and io.ReadAll on a request built for url: Do fails when t
\* says so, and always when the URL names no host.
Exchange(method, url, body, contentType, events, t) ==
  LET req == Request(method, url, body, contentType)
  IN IF t.kind = "DoError" \/ ParseUrl(url).host = <<>>
     THEN Outcome(NilData, Wrap("failed to execute request", DoError(method, url)), events, req)
     ELSE IF t.kind = "ReadError"
     THEN Outcome(NilData, Wrap("failed to read response body", ReadError), events, req)
     ELSE Outcome(t.bytes, NoError, events, req)

\* A call that dispatches without waiting for the rate limiter.
callWithoutTake(c, method, url, body, t) ==
  IF ~ParseUrl(url).ok
  THEN Outcome(NilData, Wrap("failed to create request", ParseError(url)), <<>>, NoRequest)
  ELSE Exchange(method, url, body, IF body.kind # "none" THEN "application/json" ELSE "",
                <<"Do">>, t)

\* A call that dispatches first and waits for the rate limiter afterwards.
callDispatchingFirst(c, method, url, body, t) ==
  IF ~ParseUrl(url).ok
  THEN Outcome(NilData, Wrap("failed to create request", ParseError(url)), <<>>, NoRequest)
  ELSE Exchange(method, url, body, IF body.kind # "none" THEN "application/json" ELSE "",
                <<"Do", "Take">>, t)

\* A call the rate limiter turns away: it returns after Take without a dispatch.
callTurnedAway(c, method, url, body, t) ==
  IF ~ParseUrl(url).ok
  THEN Outcome(NilData, Wrap("failed to create request", ParseError(url)), <<>>, NoRequest)
  ELSE [Exchange(method, url, body, IF body.kind # "none" THEN "application/json" ELSE "",
                 <<"Take">>, t)
          EXCEPT !.data = NilData, !.err = Err("rate limit exceeded")]

\* A call that waits for the rate limiter before it builds the request.
callTakingFirst(c, method, url, body, t) ==
  IF ~ParseUrl(url).ok
  THEN Outcome(NilData, Wrap("failed to create request", ParseError(url)), <<"Take">>,
               NoRequest)
  ELSE Exchange(method, url, body, IF body.kind # "none" THEN "application/json" ELSE "",
                <<"Take", "Do">>, t)

\* A call that tries once more when Do fails.
callRetrying(c, method, url, body, t) ==
  IF ~ParseUrl(url).ok
  THEN Outcome(NilData, Wrap("failed to create request", ParseError(url)), <<>>, NoRequest)
  ELSE Exchange(method, url, body, IF body.kind # "none" THEN "application/json" ELSE "",
                IF t.kind = "DoError" THEN <<"Take", "Do", "Take", "Do">>
                ELSE <<"Take", "Do">>, t)

\* instantly.go: call builds the request, waits for the rate limiter, then
\* dispatches.
call(c, method, url, body, t) ==
  IF ~ParseUrl(url).ok
  THEN Outcome(NilData, Wrap("failed to create request", ParseError(url)), <<>>, NoRequest)
  ELSE Exchange(method, url, body, IF body.kind # "none" THEN "application/json" ELSE "",
                <<"Take", "Do">>, t)

\* part_001: http.NewRequest of a GET and http.Client.Do, with no wait for the
\* rate limiter in between and no Content-Type.
NewRequestAndDo(url, body, t) ==
  IF ~ParseUrl(url).ok
  THEN Outcome(NilData, Wrap("failed to create request", ParseError(url)), <<>>, NoRequest)
  ELSE Exchange("GET", url, body, "", <<"Do">>, t)

\* The error of a helper wrapped once more, its data dropped.
Rewrap(prefix, out) ==
  IF out.err # NoError /\ ~out.panicked
  THEN [out EXCEPT !.data = NilData, !.err = Wrap(prefix, out.err)]
  ELSE out

\* A get that drops the error of call.
getDroppingError(c, path, params, t) ==
  [call(c, "GET", buildQueryUrl(InstantlyGo, c, path, params), NoBody, t)
     EXCEPT !.err = NoError]

get(c, path, params, t) ==
  Rewrap("failed to execute request",
         call(c, "GET", buildQueryUrl(InstantlyGo, c, path, params), NoBody, t))

\* json.Marshal(body), json.Unmarshal into a map[string]interface{}, the api_key
\* entry, json.Marshal of the map: the bytes sent, or the error, or the panic of
\* an assignment to an entry of a nil map (a body that marshals to null).
SetApiKey(c, jsonBody) ==
  IF jsonBody.kind = "null"
  THEN [ok |-> FALSE, panicked |-> TRUE, json |-> NoBody, err |-> NoError]
  ELSE IF jsonBody.kind # "object"
  THEN [ok |-> FALSE, panicked |-> FALSE, json |-> NoBody,
        err |-> Wrap("failed to unmarshal body", TypeError)]
  ELSE [ok |-> TRUE, panicked |-> FALSE, err |-> NoError,
        json |-> Marshal(MapSet(UnmarshalAny(jsonBody), "api_key", GoString(c.apiKey)))]

InjectApiKey(c, body) ==
  IF ~Marshalable(body)
  THEN [ok |-> FALSE, panicked |-> FALSE, json |-> NoBody,
        err |-> Wrap("failed to marshal body", UnsupportedTypeError)]
  ELSE SetApiKey(c, Marshal(body))

\* post once the body b is built: the request, when there is a body to send.
postBody(c, path, b, t) ==
  IF b.panicked THEN Panic(<<>>, NoRequest)
  ELSE IF ~b.ok THEN Outcome(NilData, b.err, <<>>, NoRequest)
  ELSE Rewrap("failed to execute request",
              call(c, "POST", buildBodyUrl(InstantlyGo, c, path), b.json, t))

post(c, path, body, t) == postBody(c, path, InjectApiKey(c, body), t)

\* part_001: getWithQueries and getWithBody build a GET request and dispatch it;
\* neither waits for the rate limiter, and getWithBody sets no Content-Type.
getWithQueries(c, path, params, t) ==
  NewRequestAndDo(buildQueryUrl(Part001, c, path, params), NoBody, t)

\* getWithBody once the body b is built.
getWithBodyBuilt(c, path, b, t) ==
  IF b.panicked THEN Panic(<<>>, NoRequest)
  ELSE IF ~b.ok THEN Outcome(NilData, b.err, <<>>, NoRequest)
  ELSE NewRequestAndDo(buildBodyUrl(Part001, c, path), b.json, t)

getWithBody(c, path, body, t) == getWithBodyBuilt(c, path, InjectApiKey(c, body), t)

\* The read and the write helper of revision r.
Read(r, c, path, params, t) ==
  IF r = InstantlyGo THEN get(c, path, params, t) ELSE getWithQueries(c, path, params, t)
Write(r, c, path, body, t) ==
  IF r = InstantlyGo THEN post(c, path, body, t) ELSE getWithBody(c, path, body, t)

\* ----------------------------------------------------------------- state

VARIABLES
  rev,      \* the revision of the source the behaviour runs
  client,   \* the *Client New returned, NoClient before and when New failed
  newErr,   \* the error New returned
  newArgs,  \* the arguments New was called with
  pc,       \* "idle", or "returned" while the caller holds a method's results
  inv,      \* the endpoint method invoked last, its arguments and its transport
  ret,      \* what that invocation returned and did
  now,      \* the logical clock, in ticks
  bucket,   \* the client's rate limiter: whether and when it last let a caller go
  callers,  \* the goroutines that call the client step by step
  tally,    \* the calls issued and the requests dispatched so far
  peer      \* a second client of the same process, its limiter and its caller

newVars == <<rev, client, newErr, newArgs>>
callVars == <<pc, inv, ret>>
rateVars == <<now, bucket, callers, tally, peer>>
vars == <<rev, client, newErr, newArgs, pc, inv, ret, now, bucket, callers, tally, peer>>

NoArgs == [called |-> FALSE, apiKey |-> <<>>, opts |-> <<>>, applied |-> 0]
\* The time arguments of a method that takes any: dates holds the start date
\* and the end date, schedules the schedule blocks.
NoCallArgs == [dates |-> <<>>, schedules |-> <<>>]
CallArgs(startDate, endDate, schedules) ==
  [dates |-> <<startDate, endDate>>, schedules |-> schedules]
NoInv ==
  [name |-> "", kind |-> "", path |-> <<>>, params |-> <<>>, payload |-> GoNil, t |-> DoFails,
   args |-> NoCallArgs]
\* What an endpoint method returned: its values and its error, or that it
\* panicked; and the events and the request of its transport helper, and the
\* data and the error the helper handed to the method.
Helper(out) == [data |-> out.data, err |-> out.err]
Ret(val, err, out) ==
  [val |-> val, err |-> err, panicked |-> FALSE, events |-> out.events, req |-> out.req,
   helper |-> Helper(out)]
Panicked(out) ==
  [val |-> GoNil, err |-> NoError, panicked |-> TRUE, events |-> out.events, req |-> out.req,
   helper |-> Helper(out)]
NoRet ==
  [val |-> GoNil, err |-> NoError, panicked |-> FALSE, events |-> <<>>, req |-> NoRequest,
   helper |-> [data |-> NilData, err |-> NoError]]

\* ---------------------------------------------------------------- inputs

Plain == <<"a">>
Reserved == <<"b", "&", "c", "=", "d">>
Control == <<"e", CTL>>
\* The strings a caller passes: one of plain characters, one with characters a
\* query string reserves, one with a control character.
Strs == {Plain, Reserved, Control}

ApiKeys == {<<"K1">>, <<"K2", "&", "api_key", "=", "x">>}

Path(segments) == Join(segments, "/")
Key(name) == <<name>>
Success == <<"success">>

\* The bodies a server answers with.
StatusDoc(status) == JObj(<<Member("status", JStr(status))>>)
Stamp == <<"2", "0", "2", "4", "-", "0", "1", "-", "1", "5", "T", "1", "0", ":", "3", "0", ":",
           "0", "0", "Z">>
BadStamp == <<"2", "0", "2", "4", "-", "0", "2", "-", "3", "0", "T", "1", "0", ":", "3", "0", ":",
              "0", "0", "Z">>
LaterStamp == <<"2", "0", "2", "4", "-", "1", "2", "-", "0", "5", "T", "1", "7", ":", "3", "0",
                ":", "0", "0", "+", "0", "1", ":", "0", "0">>
LeadDoc(id, stamp) ==
  JObj(<<Member("id", JStr(id)), Member("timestamp_created", JStr(stamp)),
         Member("campaign", JStr(<<"c">>)), Member("status", JInt(1)),
         Member("email_opened", JBool(TRUE)),
         Member("lead_data", JObj(<<Member("email", JStr(<<"x@y">>))>>)),
         Member("name", JStr(<<"n">>)), Member("campaign_name", JStr(<<"cn">>)),
         Member("total_leads", JInt(7)), Member("total_sent", JInt(3))>>)
AccountDoc(created, updated) ==
  JObj(<<Member("email", JStr(<<"x@y">>)), Member("timestamp_created", JStr(created)),
         Member("timestamp_updated", JStr(updated))>>)
AccountsDoc(accounts) ==
  JObj(<<Member("status", JStr(Success)), Member("entries_added", JInt(2)),
         Member("accounts", JArr(accounts)),
         Member("success_list", JArr(<<JObj(<<Member("domain", JStr(<<"d">>)),
                                             Member("Mx", JBool(TRUE))>>)>>))>>)
\* A refusal that carries data all the same.
RefusedDoc ==
  JObj(<<Member("status", JStr(<<"failed">>))>>
         \o Tail(AccountsDoc(<<AccountDoc(Stamp, Stamp)>>).members))
\* Data without any status.
UnstatedDoc == JObj(Tail(AccountsDoc(<<AccountDoc(Stamp, Stamp)>>).members))
Docs ==
  { JInvalid, RefusedDoc, UnstatedDoc, JNull, JArr(<<>>), JObj(<<>>), JStr(<<"ws">>),
    StatusDoc(Success), StatusDoc(<<"failed">>),
    JObj(<<Member("status", JInt(5))>>),
    JObj(<<Member("STATUS", JStr(Success))>>),
    JObj(<<Member("status", JStr(Success)), Member("status", JStr(<<"failed">>))>>),
    JArr(<<JStr(<<"x@y">>)>>),
    JArr(<<LeadDoc(<<"l1">>, Stamp)>>),
    JArr(<<LeadDoc(<<"l1">>, BadStamp)>>),
    JArr(<<LeadDoc(<<"l1">>, Stamp), LeadDoc(<<"l2">>, Stamp)>>),
    LeadDoc(<<"l1">>, Stamp),
    AccountsDoc(<<AccountDoc(Stamp, Stamp), AccountDoc(Stamp, Stamp)>>),
    AccountsDoc(<<AccountDoc(Stamp, Stamp), AccountDoc(Stamp, BadStamp)>>),
    AccountsDoc(<<AccountDoc(Stamp, LaterStamp), AccountDoc(LaterStamp, Stamp)>>) }

Transports == {DoFails, ReadFails} \cup {Responds(d) : d \in Docs}

\* ------------------------------------------------------- endpoint methods

\* The methods of instantly.go that part_001 does not have.
OnlyInInstantlyGo == {"MarkAccountAsFixed", "MarkAllAccountsAsFixed", "DeleteAccount"}

\* An invocation that leaves the client with the default version.
InvokeResettingVersion(name, kind, path, params, payload, args, t, results) ==
  /\ ~client.nil
  /\ name \in OnlyInInstantlyGo => rev = InstantlyGo
  /\ pc' = "returned"
  /\ inv' = [name |-> name, kind |-> kind, path |-> path, params |-> params,
             payload |-> payload, t |-> t, args |-> args]
  /\ ret' = results
  /\ client' = [client EXCEPT !.options.apiVersion = DefaultApiVersion]
  /\ UNCHANGED <<rev, newErr, newArgs, rateVars>>

\* The caller, idle, invokes method name and holds results when it returns or
\* panics.
InvokeWith(name, kind, path, params, payload, args, t, results) ==
  /\ ~client.nil
  /\ name \in OnlyInInstantlyGo => rev = InstantlyGo
  /\ pc' = "returned"
  /\ inv' = [name |-> name, kind |-> kind, path |-> path, params |-> params,
             payload |-> payload, t |-> t, args |-> args]
  /\ ret' = results
  /\ UNCHANGED <<newVars, rateVars>>

Invoke(name, kind, path, params, payload, t, results) ==
  InvokeWith(name, kind, path, params, payload, NoCallArgs, t, results)

\* The caller drops the results: nothing of a call outlives it.
Discard ==
  /\ pc = "returned"
  /\ pc' = "idle"
  /\ inv' = NoInv
  /\ ret' = NoRet
  /\ UNCHANGED <<newVars, rateVars>>

\* How each method hands its target to json.Unmarshal, in each revision.
DecodeStyle(r, name) ==
  IF name \in {"GetCampaignSummary", "GetCampaignCount", "AddLeadsToCampaign"} THEN NilPointer
  ELSE IF r = InstantlyGo \/ name = "GetCampaignAccounts" THEN Allocated
  ELSE IF name \in {"ListCampaigns", "GetCampaignName", "SetCampaignName",
                    "SetCampaignAccounts", "AddSendingAccount", "RemoveSendingAccount",
                    "SetCampaignSchedule", "LaunchCampaign", "PauseCampaign"} THEN NilPointer
  ELSE PtrToNil

StatusType == TStruct(<<TField("status", TString)>>)

\* A CheckStatus that never compares the status with "success".
CheckStatusIgnored(out, u, action, noun, appendStatus) ==
  IF u.err # NoError THEN Ret(GoNil, Wrap(noun, u.err), out)
  ELSE IF u.val.t = "nil" THEN Panicked(out)
  ELSE Ret(GoNil, NoError, out)

\* A CheckStatus that takes a response without a status for a success.
CheckStatusWhenPresent(out, u, action, noun, appendStatus) ==
  IF u.err # NoError THEN Ret(GoNil, Wrap(noun, u.err), out)
  ELSE IF u.val.t = "nil" THEN Panicked(out)
  ELSE IF Get(u.val, "status").s \notin {Success, <<>>}
  THEN Ret(GoNil, IF appendStatus THEN Wrap(action, Get(u.val, "status").s) ELSE Err(action),
           out)
  ELSE Ret(GoNil, NoError, out)

\* A CheckStatus whose status error quotes the body of the request.
CheckStatusQuotingRequest(out, u, action, noun, appendStatus) ==
  IF u.err # NoError THEN Ret(GoNil, Wrap(noun, u.err), out)
  ELSE IF u.val.t = "nil" THEN Panicked(out)
  ELSE IF Get(u.val, "status").s # Success
  THEN Ret(GoNil, Wrap(action, Lookup(out.req.body.members, "api_key").s), out)
  ELSE Ret(GoNil, NoError, out)

\* The last step of a write method that returns only an error: the decoded
\* response u is checked.  Reading the status through a pointer that Unmarshal
\* left nil panics.
CheckStatus(out, u, action, noun, appendStatus) ==
  IF u.err # NoError THEN Ret(GoNil, Wrap(noun, u.err), out)
  ELSE IF u.val.t = "nil" THEN Panicked(out)
  ELSE IF Get(u.val, "status").s # Success
  THEN Ret(GoNil, IF appendStatus THEN Wrap(action, Get(u.val, "status").s) ELSE Err(action),
           out)
  ELSE Ret(GoNil, NoError, out)

\* The body of every write method that returns only an error, from the return
\* of its transport helper on: out is what the helper returned.  The response
\* is decoded and its status compared with "success".  The first methods of the
\* file append the status to the error, the later ones do not.
StatusOnly(r, name, out, action, noun, appendStatus) ==
  IF out.panicked THEN Panicked(out)
  ELSE IF out.err # NoError THEN Ret(GoNil, Wrap(action, out.err), out)
  ELSE CheckStatus(out, Unmarshal(out.data, DecodeStyle(r, name), StatusType),
                   action, noun, appendStatus)

\* The []string arguments a caller passes: nil, one string, two strings.
Strings(strs) == GoSlice([i \in 1..Len(strs) |-> GoString(strs[i])])
StrLists == {GoNilSlice, Strings(<<Plain>>), Strings(<<Plain, Reserved>>)}

CampaignIdPayload(campaignId) ==
  GoStruct(<<Field("campaign_id", FALSE, GoString(campaignId))>>)
CampaignEmailPayload(campaignId, email) ==
  GoStruct(<<Field("campaign_id", FALSE, GoString(campaignId)),
             Field("email", FALSE, GoString(email))>>)

SetCampaignName ==
  /\ pc = "idle"
  /\ \E campaignId \in Strs, campaignName \in {Plain, Reserved}, t \in Transports :
    LET path == Path(<<"campaign", "set", "name">>)
        payload == GoStruct(<<Field("campaign_id", FALSE, GoString(campaignId)),
                              Field("name", FALSE, GoString(campaignName))>>)
    IN Invoke("SetCampaignName", "write", path, <<>>, payload, t,
              StatusOnly(rev, "SetCampaignName", Write(rev, client, path, payload, t),
                         "failed to set campaign name",
                         "failed to unmarshal campaign name", TRUE))

SetCampaignAccounts ==
  /\ pc = "idle"
  /\ \E campaignId \in {Plain, Reserved}, accountEmails \in StrLists, t \in Transports :
    LET path == Path(<<"campaign", "set", "accounts">>)
        payload == GoStruct(<<Field("campaign_id", FALSE, GoString(campaignId)),
                              Field("account_list", FALSE, accountEmails)>>)
    IN Invoke("SetCampaignAccounts", "write", path, <<>>, payload, t,
              StatusOnly(rev, "SetCampaignAccounts", Write(rev, client, path, payload, t),
                         "failed to set campaign accounts",
                         "failed to unmarshal campaign accounts", TRUE))

AddSendingAccount ==
  /\ pc = "idle"
  /\ \E campaignId \in {Plain, Reserved}, email \in Strs, t \in Transports :
    LET path == Path(<<"campaign", "add", "account">>)
        payload == CampaignEmailPayload(campaignId, email)
    IN Invoke("AddSendingAccount", "write", path, <<>>, payload, t,
              StatusOnly(rev, "AddSendingAccount", Write(rev, client, path, payload, t),
                         "failed to add sending account",
                         "failed to unmarshal sending account", TRUE))

RemoveSendingAccount ==
  /\ pc = "idle"
  /\ \E campaignId \in {Plain, Reserved}, email \in Strs, t \in Transports :
    LET path == Path(<<"campaign", "remove", "account">>)
        payload == CampaignEmailPayload(campaignId, email)
    IN Invoke("RemoveSendingAccount", "write", path, <<>>, payload, t,
              StatusOnly(rev, "RemoveSendingAccount", Write(rev, client, path, payload, t),
                         "failed to remove sending account",
                         "failed to unmarshal sending account", TRUE))

LaunchCampaign ==
  /\ pc = "idle"
  /\ \E campaignId \in Strs, t \in Transports :
    LET path == Path(<<"campaign", "launch">>)
        payload == CampaignIdPayload(campaignId)
    IN Invoke("LaunchCampaign", "write", path, <<>>, payload, t,
              StatusOnly(rev, "LaunchCampaign", Write(rev, client, path, payload, t),
                         "failed to launch campaign",
                         "failed to unmarshal campaign launch", TRUE))

PauseCampaign ==
  /\ pc = "idle"
  /\ \E campaignId \in Strs, t \in Transports :
    LET path == Path(<<"campaign", "pause">>)
        payload == CampaignIdPayload(campaignId)
    IN Invoke("PauseCampaign", "write", path, <<>>, payload, t,
              StatusOnly(rev, "PauseCampaign", Write(rev, client, path, payload, t),
                         "failed to pause campaign",
                         "failed to unmarshal campaign pause", TRUE))

\* A *time.Time argument: nil, or a pointer to a time.
NilTime == [nil |-> TRUE, time |-> ZeroTime]
TimePtr(time) == [nil |-> FALSE, time |-> time]
\* A *time.Location: nil, or a named zone.  Location.String() of nil is "UTC".
NilLocation == [nil |-> TRUE, name |-> <<>>]
Location(name) == [nil |-> FALSE, name |-> name]
LocationString(l) == IF l.nil THEN <<"UTC">> ELSE l.name

\* A CampaignSchedule; days is the map[time.Weekday]bool, one entry per weekday
\* it holds.
CampaignSchedule(name, days, timezone, from, to) ==
  [name |-> name, days |-> days, timezone |-> timezone, from |-> from, to |-> to]
Day(day, value) == [day |-> day, value |-> value]

\* convert: the dates become YYYY-MM-DD strings, an absent end date the empty
\* string that omitempty drops, the weekdays decimal keys, the times HH:MM.
convertDays(days) ==
  GoMap([i \in 1..Len(days) |-> Member(Itoa(days[i].day)[1], GoBool(days[i].value))])
convertSchedule(s) ==
  GoStruct(<<Field("name", FALSE, GoString(s.name)),
             Field("days", FALSE, convertDays(s.days)),
             Field("timezone", FALSE, GoString(LocationString(s.timezone))),
             Field("timing", FALSE,
                   GoStruct(<<Field("from", FALSE, GoString(FormatHM(s.from))),
                              Field("to", FALSE, GoString(FormatHM(s.to)))>>))>>)
convert(campaignId, startDate, endDate, schedules) ==
  GoStruct(<<Field("campaign_id", FALSE, GoString(campaignId)),
             Field("start_date", FALSE, GoString(FormatYMD(startDate))),
             Field("end_date", TRUE,
                   GoString(IF endDate.nil THEN <<>> ELSE FormatYMD(endDate.time))),
             Field("schedules", FALSE,
                   GoSlice([i \in 1..Len(schedules) |-> convertSchedule(schedules[i])]))>>)

Morning == Time(2024, 1, 15, 9, 5, 0)
Evening == Time(2024, 12, 5, 17, 30, 0)
Dates == {Morning, Evening}
EndDates == {NilTime, TimePtr(Evening), TimePtr(ZeroTime)}
Weekdays == CampaignSchedule(<<"w">>, <<Day(1, TRUE), Day(0, FALSE)>>, NilLocation,
                             Morning, Evening)
Weekend == CampaignSchedule(Reserved, <<>>, Location(<<"Europe", "/", "Berlin">>),
                            Evening, Morning)
\* A block named Morning: Monday, Wednesday and Friday in New York, 09:00 to
\* 17:00.
Office == CampaignSchedule(<<"Morning">>, <<Day(1, TRUE), Day(3, TRUE), Day(5, TRUE)>>,
                           Location(<<"America", "/", "New_York">>),
                           Time(2024, 1, 15, 9, 0, 0), Time(2024, 1, 15, 17, 0, 0))
ScheduleLists == {<<>>, <<Weekdays>>, <<Weekdays, Weekend>>, <<Office>>}

SetCampaignSchedule ==
  /\ pc = "idle"
  /\ \E campaignId \in {Plain}, startDate \in Dates, endDate \in EndDates,
     schedules \in ScheduleLists, t \in Transports :
    LET path == Path(<<"campaign", "set", "schedules">>)
        payload == convert(campaignId, startDate, endDate, schedules)
    IN InvokeWith("SetCampaignSchedule", "write", path, <<>>, payload,
                  CallArgs(startDate, endDate, schedules), t,
              StatusOnly(rev, "SetCampaignSchedule", Write(rev, client, path, payload, t),
                         "failed to set campaign schedule",
                         "failed to unmarshal campaign schedule", TRUE))

DeleteLeadsFromCampaign ==
  /\ pc = "idle"
  /\ \E campaignId \in {Plain, Reserved}, deleteAllFromCompany \in BOOLEAN,
     deleteList \in StrLists, t \in Transports :
    LET path == Path(<<"lead", "delete">>)
        payload == GoStruct(<<Field("campaign_id", FALSE, GoString(campaignId)),
                              Field("delete_all_from_company", FALSE,
                                    GoBool(deleteAllFromCompany)),
                              Field("delete_list", FALSE, deleteList)>>)
    IN Invoke("DeleteLeadsFromCampaign", "write", path, <<>>, payload, t,
              StatusOnly(rev, "DeleteLeadsFromCampaign", Write(rev, client, path, payload, t),
                         "failed to delete leads from campaign",
                         "failed to unmarshal delete leads from campaign", FALSE))

LeadStatusActive == <<"Active">>
LeadStatusClosed == <<"Closed">>

UpdateLeadStatus ==
  /\ pc = "idle"
  /\ \E campaignId \in {Plain, Reserved}, email \in {Plain, Reserved},
     status \in {LeadStatusActive, LeadStatusClosed}, t \in Transports :
    LET path == Path(<<"lead", "update", "status">>)
        payload == GoStruct(<<Field("campaign_id", FALSE, GoString(campaignId)),
                              Field("email", FALSE, GoString(email)),
                              Field("new_status", FALSE, GoString(status))>>)
    IN Invoke("UpdateLeadStatus", "write", path, <<>>, payload, t,
              StatusOnly(rev, "UpdateLeadStatus", Write(rev, client, path, payload, t),
                         "failed to update lead status",
                         "failed to unmarshal update lead status", FALSE))

\* The map[string]interface{} arguments a caller passes: nil, a string, a small
\* integer, the integer 2^53 + 1, a value json.Marshal refuses.
VariableMaps ==
  { GoNilMap, GoMap(<<Member("s", GoString(Plain))>>),
    GoMap(<<Member("n", GoInt(FALSE, 0, 7)), Member("s", GoString(Reserved))>>),
    GoMap(<<Member("n", GoInt(FALSE, Hi53, 1))>>), GoMap(<<Member("n", GoUnsupported)>>) }

LeadVariablesPayload(campaignId, email, variables) ==
  GoStruct(<<Field("campaign_id", FALSE, GoString(campaignId)),
             Field("email", FALSE, GoString(email)),
             Field("variables", FALSE, variables)>>)

UpdateLeadVariable ==
  /\ pc = "idle"
  /\ \E campaignId \in {Plain, Reserved}, email \in {Plain}, variables \in VariableMaps,
     t \in Transports :
    LET path == Path(<<"lead", "data", "update">>)
        payload == LeadVariablesPayload(campaignId, email, variables)
    IN Invoke("UpdateLeadVariable", "write", path, <<>>, payload, t,
              StatusOnly(rev, "UpdateLeadVariable", Write(rev, client, path, payload, t),
                         "failed to update lead variable",
                         "failed to unmarshal update lead variable", FALSE))

SetLeadVariable ==
  /\ pc = "idle"
  /\ \E campaignId \in {Plain, Reserved}, email \in {Plain}, variables \in VariableMaps,
     t \in Transports :
    LET path == Path(<<"lead", "data", "set">>)
        payload == LeadVariablesPayload(campaignId, email, variables)
    IN Invoke("SetLeadVariable", "write", path, <<>>, payload, t,
              StatusOnly(rev, "SetLeadVariable", Write(rev, client, path, payload, t),
                         "failed to set lead variable",
                         "failed to unmarshal set lead variable", FALSE))

DeleteLeadVariables ==
  /\ pc = "idle"
  /\ \E campaignId \in {Plain, Reserved}, email \in {Plain}, variables \in StrLists,
     t \in Transports :
    LET path == Path(<<"lead", "data", "update">>)
        payload == LeadVariablesPayload(campaignId, email, variables)
    IN Invoke("DeleteLeadVariables", "write", path, <<>>, payload, t,
              StatusOnly(rev, "DeleteLeadVariables", Write(rev, client, path, payload, t),
                         "failed to delete lead variables",
                         "failed to unmarshal delete lead variables", FALSE))

\* A payload whose email field carries no omitempty tag.
EmailPayloadAlways(email, omitempty) == GoStruct(<<Field("email", FALSE, GoString(email))>>)

EmailPayload(email, omitempty) == GoStruct(<<Field("email", omitempty, GoString(email))>>)

EnableWarmup ==
  /\ pc = "idle"
  /\ \E email \in Strs, t \in Transports :
    LET path == Path(<<"account", "warmup", "enable">>)
        payload == EmailPayload(email, FALSE)
    IN Invoke("EnableWarmup", "write", path, <<>>, payload, t,
              StatusOnly(rev, "EnableWarmup", Write(rev, client, path, payload, t),
                         "failed to enable warmup", "failed to unmarshal enable warmup", FALSE))

PauseWarmup ==
  /\ pc = "idle"
  /\ \E email \in Strs, t \in Transports :
    LET path == Path(<<"account", "warmup", "pause">>)
        payload == EmailPayload(email, FALSE)
    IN Invoke("PauseWarmup", "write", path, <<>>, payload, t,
              StatusOnly(rev, "PauseWarmup", Write(rev, client, path, payload, t),
                         "failed to pause warmup", "failed to unmarshal pause warmup", FALSE))

MarkAccountAsFixed ==
  /\ pc = "idle"
  /\ \E email \in Strs \cup {<<>>}, t \in Transports :
    LET path == Path(<<"account", "mark_fixed">>)
        payload == EmailPayload(email, TRUE)
    IN Invoke("MarkAccountAsFixed", "write", path, <<>>, payload, t,
              StatusOnly(rev, "MarkAccountAsFixed", Write(rev, client, path, payload, t),
                         "failed to mark accounts as fixed",
                         "failed to unmarshal mark accounts as fixed", FALSE))

MarkAllAccountsAsFixed ==
  /\ pc = "idle"
  /\ \E t \in Transports :
    LET path == Path(<<"account", "mark_fixed">>)
        payload == EmailPayload(<<>>, TRUE)
    IN Invoke("MarkAllAccountsAsFixed", "write", path, <<>>, payload, t,
              StatusOnly(rev, "MarkAllAccountsAsFixed", Write(rev, client, path, payload, t),
                         "failed to mark accounts as fixed",
                         "failed to unmarshal mark accounts as fixed", FALSE))

DeleteAccount ==
  /\ pc = "idle"
  /\ \E email \in Strs, t \in Transports :
    LET path == Path(<<"account", "delete">>)
        payload == EmailPayload(email, FALSE)
    IN Invoke("DeleteAccount", "write", path, <<>>, payload, t,
              StatusOnly(rev, "DeleteAccount", Write(rev, client, path, payload, t),
                         "failed to delete account", "failed to unmarshal delete account",
                         FALSE))

addEntriesToBlocklistResponse ==
  TStruct(<<TField("status", TString), TField("entries_added", TInt),
            TField("already_in_blocklist", TInt), TField("blocklist_id", TString)>>)

\* A decoding that returns the count whatever the status says.
AddEntriesToBlocklistUnchecked(out, u) ==
  IF u.err # NoError
  THEN Ret(GoInt(FALSE, 0, 0), Wrap("failed to unmarshal add entries to blocklist", u.err), out)
  ELSE IF u.val.t = "nil" THEN Panicked(out)
  ELSE Ret(Get(u.val, "entries_added"), NoError, out)

AddEntriesToBlocklistDecoded(out, u) ==
  IF u.err # NoError
  THEN Ret(GoInt(FALSE, 0, 0), Wrap("failed to unmarshal add entries to blocklist", u.err), out)
  ELSE IF u.val.t = "nil" THEN Panicked(out)
  ELSE IF Get(u.val, "status").s # Success
  THEN Ret(GoInt(FALSE, 0, 0), Err("failed to add entries to blocklist"), out)
  ELSE Ret(Get(u.val, "entries_added"), NoError, out)

AddEntriesToBlocklistReturn(r, out) ==
  IF out.panicked THEN Panicked(out)
  ELSE IF out.err # NoError
  THEN Ret(GoInt(FALSE, 0, 0), Wrap("failed to add entries to blocklist", out.err), out)
  ELSE AddEntriesToBlocklistDecoded(
         out, Unmarshal(out.data, DecodeStyle(r, "AddEntriesToBlocklist"),
                        addEntriesToBlocklistResponse))

AddEntriesToBlocklist ==
  /\ pc = "idle"
  /\ \E entries \in StrLists, t \in Transports :
    LET path == IF rev = InstantlyGo THEN Path(<<"blocklist", "add", "entries">>)
                ELSE Path(<<"blocklist", "add">>)
        payload == GoStruct(<<Field("entries", FALSE, entries)>>)
    IN Invoke("AddEntriesToBlocklist", "write", path, <<>>, payload, t,
              AddEntriesToBlocklistReturn(rev, Write(rev, client, path, payload, t)))

AccountVitals ==
  TStruct(<<TField("Domain", TString), TField("Mx", TBool), TField("Spf", TBool),
            TField("Dkim", TBool), TField("Dmarc", TBool)>>)
checkAccountVitalsResponse ==
  TStruct(<<TField("status", TString), TField("success_list", TSlice(AccountVitals)),
            TField("failure_list", TSlice(AccountVitals))>>)

\* The two results of CheckAccountVitals.
VitalsLists(successList, failureList) ==
  GoStruct(<<Field("successList", FALSE, successList),
             Field("failureList", FALSE, failureList)>>)

\* Each list is made with the length of the decoded one and filled field by
\* field: it is never nil.
CheckAccountVitalsDecoded(out, u) ==
  IF u.err # NoError
  THEN Ret(VitalsLists(GoNilSlice, GoNilSlice),
           Wrap("failed to unmarshal check account vitals", u.err), out)
  ELSE IF u.val.t = "nil" THEN Panicked(out)
  ELSE IF Get(u.val, "status").s # Success
  THEN Ret(VitalsLists(GoNilSlice, GoNilSlice), Err("failed to check account vitals"), out)
  ELSE Ret(VitalsLists(GoSlice(Get(u.val, "success_list").items),
                       GoSlice(Get(u.val, "failure_list").items)), NoError, out)

CheckAccountVitalsReturn(r, out) ==
  IF out.panicked THEN Panicked(out)
  ELSE IF out.err # NoError
  THEN Ret(VitalsLists(GoNilSlice, GoNilSlice),
           Wrap("failed to check account vitals", out.err), out)
  ELSE CheckAccountVitalsDecoded(
         out, Unmarshal(out.data, DecodeStyle(r, "CheckAccountVitals"),
                        checkAccountVitalsResponse))

CheckAccountVitals ==
  /\ pc = "idle"
  /\ \E accounts \in StrLists, t \in Transports :
    LET path == Path(<<"account", "test", "vitals">>)
        payload == GoStruct(<<Field("accounts", FALSE, accounts)>>)
    IN Invoke("CheckAccountVitals", "write", path, <<>>, payload, t,
              CheckAccountVitalsReturn(rev, Write(rev, client, path, payload, t)))

\* A Lead: every field but the email is left out of the JSON when it is empty.
Lead(email, firstName, customVariables) ==
  GoStruct(<<Field("email", FALSE, GoString(email)),
             Field("first_name", TRUE, GoString(firstName)),
             Field("last_name", TRUE, GoString(<<>>)),
             Field("company_name", TRUE, GoString(<<>>)),
             Field("personalization", TRUE, GoString(<<>>)),
             Field("phone", TRUE, GoString(<<>>)),
             Field("website", TRUE, GoString(<<>>)),
             Field("custom_variables", TRUE, customVariables)>>)
LeadLists ==
  { GoNilSlice, GoSlice(<<Lead(Plain, <<>>, GoNilMap)>>),
    GoSlice(<<Lead(Plain, <<>>, GoNilMap),
              Lead(Reserved, <<"f">>, GoMap(<<Member("s", GoString(<<"v">>))>>))>>) }

addLeadsToCampaignResponse ==
  TStruct(<<TField("status", TString), TField("total_sent", TInt),
            TField("leads_uploaded", TInt), TField("already_in_campaign", TString),
            TField("invalid_email_count", TString), TField("duplicate_email_count", TString),
            TField("remaining_in_plan", TInt)>>)

\* A method that returns the pointer it decoded into: nil with the error, the
\* pointer otherwise.
PointerDecoded(out, u, noun) ==
  IF u.err # NoError THEN Ret(GoNil, Wrap(noun, u.err), out) ELSE Ret(u.val, NoError, out)

AddLeadsToCampaignReturn(r, out) ==
  IF out.panicked THEN Panicked(out)
  ELSE IF out.err # NoError THEN Ret(GoNil, Wrap("failed to add leads to campaign", out.err), out)
  ELSE PointerDecoded(out, Unmarshal(out.data, DecodeStyle(r, "AddLeadsToCampaign"),
                                     addLeadsToCampaignResponse),
                      "failed to unmarshal add leads to campaign")

AddLeadsToCampaign ==
  /\ pc = "idle"
  /\ \E campaignId \in {Plain, Reserved}, leads \in LeadLists, t \in Transports :
    LET path == Path(<<"lead", "add">>)
        payload == GoStruct(<<Field("campaign_id", FALSE, GoString(campaignId)),
                              Field("leads", FALSE, leads)>>)
    IN Invoke("AddLeadsToCampaign", "write", path, <<>>, payload, t,
              AddLeadsToCampaignReturn(rev, Write(rev, client, path, payload, t)))

\* string(data): the bytes of the response as they are.
GoText(data) == [t |-> "text", doc |-> data]
GoTime(time) == [t |-> "time", time |-> time]

AuthenticateReturn(out) ==
  IF out.err # NoError THEN Ret(GoString(<<>>), Wrap("failed to authenticate", out.err), out)
  ELSE Ret(GoText(out.data), NoError, out)

Authenticate ==
  /\ pc = "idle"
  /\ \E t \in Transports :
       LET path == Path(<<"authenticate">>)
       IN Invoke("Authenticate", "read", path, <<>>, GoNil, t,
                 AuthenticateReturn(Read(rev, client, path, <<>>, t)))

listCampaignsResponse == TSlice(TStruct(<<TField("id", TString), TField("name", TString)>>))
Campaign(id, name) == GoStruct(<<Field("Id", FALSE, id), Field("Name", FALSE, name)>>)

\* The campaigns appended one by one to a nil slice: nil when there is none.
ListCampaignsDecoded(out, u) ==
  IF u.err # NoError THEN Ret(GoNilSlice, Wrap("failed to unmarshal campaigns", u.err), out)
  ELSE IF u.val.t = "nil" THEN Panicked(out)
  ELSE IF u.val.items = <<>> THEN Ret(GoNilSlice, NoError, out)
  ELSE Ret(GoSlice([i \in 1..Len(u.val.items) |->
                      Campaign(Get(u.val.items[i], "id"), Get(u.val.items[i], "name"))]),
           NoError, out)

ListCampaignsReturn(r, out) ==
  IF out.err # NoError THEN Ret(GoNilSlice, Wrap("failed to list campaigns", out.err), out)
  ELSE ListCampaignsDecoded(out, Unmarshal(out.data, DecodeStyle(r, "ListCampaigns"),
                                           listCampaignsResponse))

ListCampaigns ==
  /\ pc = "idle"
  /\ \E t \in Transports :
       LET path == Path(<<"campaign", "list">>)
       IN Invoke("ListCampaigns", "read", path, <<>>, GoNil, t,
                 ListCampaignsReturn(rev, Read(rev, client, path, <<>>, t)))

getCampaignNameResponse ==
  TStruct(<<TField("campaign_id", TString), TField("campaign_name", TString)>>)

GetCampaignNameDecoded(out, u) ==
  IF u.err # NoError
  THEN Ret(GoString(<<>>), Wrap("failed to unmarshal campaign name", u.err), out)
  ELSE IF u.val.t = "nil" THEN Panicked(out)
  ELSE Ret(Get(u.val, "campaign_name"), NoError, out)

GetCampaignNameReturn(r, out) ==
  IF out.err # NoError
  THEN Ret(GoString(<<>>), Wrap("failed to get campaign name", out.err), out)
  ELSE GetCampaignNameDecoded(out, Unmarshal(out.data, DecodeStyle(r, "GetCampaignName"),
                                             getCampaignNameResponse))

CampaignIdParams(campaignId) == <<param(Key("campaign_id"), campaignId)>>

GetCampaignName ==
  /\ pc = "idle"
  /\ \E campaignId \in Strs, t \in Transports :
       LET path == Path(<<"campaign", "get", "name">>)
           params == CampaignIdParams(campaignId)
       IN Invoke("GetCampaignName", "read", path, params, GoNil, t,
                 GetCampaignNameReturn(rev, Read(rev, client, path, params, t)))

\* The slice is returned as Unmarshal left it.
GetCampaignAccountsDecoded(out, u) ==
  IF u.err # NoError
  THEN Ret(GoNilSlice, Wrap("failed to unmarshal campaign accounts", u.err), out)
  ELSE Ret(u.val, NoError, out)

GetCampaignAccountsReturn(r, out) ==
  IF out.err # NoError
  THEN Ret(GoNilSlice, Wrap("failed to get campaign accounts", out.err), out)
  ELSE GetCampaignAccountsDecoded(
         out, Unmarshal(out.data, DecodeStyle(r, "GetCampaignAccounts"), TSlice(TString)))

GetCampaignAccounts ==
  /\ pc = "idle"
  /\ \E campaignId \in Strs, t \in Transports :
       LET path == Path(<<"campaign", "get", "accounts">>)
           params == CampaignIdParams(campaignId)
       IN Invoke("GetCampaignAccounts", "read", path, params, GoNil, t,
                 GetCampaignAccountsReturn(rev, Read(rev, client, path, params, t)))

getCampaignSummaryResponse ==
  TStruct(<<TField("campaign_id", TString), TField("campaign_name", TString),
            TField("total_leads", TInt), TField("contacted", TInt),
            TField("leads_who_read", TInt), TField("leads_who_replied", TInt),
            TField("bounced", TString), TField("unsubscribed", TString),
            TField("completed", TInt)>>)

GetCampaignSummaryReturn(r, out) ==
  IF out.err # NoError THEN Ret(GoNil, Wrap("failed to get campaign summary", out.err), out)
  ELSE PointerDecoded(out, Unmarshal(out.data, DecodeStyle(r, "GetCampaignSummary"),
                                     getCampaignSummaryResponse),
                      "failed to unmarshal campaign summary")

GetCampaignSummary ==
  /\ pc = "idle"
  /\ \E campaignId \in Strs, t \in Transports :
       LET path == Path(<<"campaign", "summary">>)
           params == CampaignIdParams(campaignId)
       IN Invoke("GetCampaignSummary", "read", path, params, GoNil, t,
                 GetCampaignSummaryReturn(rev, Read(rev, client, path, params, t)))

getCampaignCountResponse ==
  TStruct(<<TField("campaign_id", TString), TField("campaign_name", TString),
            TField("total_emails_sent", TInt), TField("emails_read", TInt),
            TField("new_leads_contacted", TInt), TField("leads_replied", TInt),
            TField("leads_read", TInt)>>)

\* The queries of GetCampaignCount: the dates are formatted month first, and
\* end_date is there when an end date was given.
CampaignCountParams(campaignId, startDate, endDate) ==
  <<param(Key("campaign_id"), campaignId), param(Key("start_date"), FormatMDY(startDate))>>
    \o (IF endDate.nil THEN <<>> ELSE <<param(Key("end_date"), FormatMDY(endDate.time))>>)

GetCampaignCountReturn(r, out) ==
  IF out.err # NoError THEN Ret(GoNil, Wrap("failed to get campaign count", out.err), out)
  ELSE PointerDecoded(out, Unmarshal(out.data, DecodeStyle(r, "GetCampaignCount"),
                                     getCampaignCountResponse),
                      "failed to unmarshal campaign count")

GetCampaignCount ==
  /\ pc = "idle"
  /\ \E campaignId \in {Plain, Reserved}, startDate \in Dates, endDate \in EndDates,
        t \in Transports :
       LET path == Path(<<"analytics", "campaign", "count">>)
           params == CampaignCountParams(campaignId, startDate, endDate)
       IN InvokeWith("GetCampaignCount", "read", path, params, GoNil,
                     CallArgs(startDate, endDate, <<>>), t,
                 GetCampaignCountReturn(rev, Read(rev, client, path, params, t)))

getLeadFromCampaignResponse ==
  TSlice(TStruct(<<TField("id", TString), TField("timestamp_created", TString),
                   TField("campaign", TString), TField("status", TInt),
                   TField("contact", TString), TField("email_opened", TBool),
                   TField("email_replied", TBool), TField("lead_data", TStringMap),
                   TField("campaign_name", TString)>>))

\* The internalLead built from the decoded lead res0 and its parsed timestamp.
internalLead(res0, timestamp) ==
  GoStruct(<<Field("Id", FALSE, Get(res0, "id")),
             Field("Timestamp", FALSE, GoTime(timestamp)),
             Field("Campaign", FALSE, Get(res0, "campaign")),
             Field("Status", FALSE, Get(res0, "status")),
             Field("Contact", FALSE, Get(res0, "contact")),
             Field("EmailOpened", FALSE, Get(res0, "email_opened")),
             Field("EmailReplied", FALSE, Get(res0, "email_replied")),
             Field("LeadData", FALSE, Get(res0, "lead_data")),
             Field("CampaignName", FALSE, Get(res0, "campaign_name"))>>)
\* The zero internalLead, the named result before it is assigned.
ZeroLead == internalLead(Zero(getLeadFromCampaignResponse.elem), ZeroTime)

\* A conversion that hands back the lead it has, without its timestamp, beside
\* the error.
GetLeadFromCampaignPartial(out, res0, parsed) ==
  IF ~parsed.ok
  THEN Ret(internalLead(res0, ZeroTime), Wrap("failed to parse timestamp", TimeParseError), out)
  ELSE Ret(internalLead(res0, parsed.time), NoError, out)

GetLeadFromCampaignParsed(out, res0, parsed) ==
  IF ~parsed.ok THEN Ret(ZeroLead, Wrap("failed to parse timestamp", TimeParseError), out)
  ELSE Ret(internalLead(res0, parsed.time), NoError, out)

\* instantly.go refuses more than one lead; part_001 has no such check and
\* goes on with the first, and its len(*response) panics on a nil response.
GetLeadFromCampaignDecoded(r, out, u) ==
  IF u.err # NoError
  THEN Ret(ZeroLead, Wrap("failed to unmarshal get lead from campaign", u.err), out)
  ELSE IF u.val.t = "nil" THEN Panicked(out)
  ELSE IF Len(u.val.items) = 0 THEN Ret(ZeroLead, Err("no lead found"), out)
  ELSE IF r = InstantlyGo /\ Len(u.val.items) > 1
  THEN Ret(ZeroLead, Err("multiple leads found"), out)
  ELSE GetLeadFromCampaignParsed(
         out, u.val.items[1], ParseRFC3339(Get(u.val.items[1], "timestamp_created").s))

GetLeadFromCampaignReturn(r, out) ==
  IF out.err # NoError
  THEN Ret(ZeroLead, Wrap("failed to get lead from campaign", out.err), out)
  ELSE GetLeadFromCampaignDecoded(
         r, out, Unmarshal(out.data, DecodeStyle(r, "GetLeadFromCampaign"),
                           getLeadFromCampaignResponse))

GetLeadFromCampaign ==
  /\ pc = "idle"
  /\ \E campaignId \in {Plain, Reserved}, email \in Strs \cup {<<"x", "#", "y">>},
        t \in Transports :
       LET path == Path(<<"lead", "get">>)
           params == <<param(Key("campaign_id"), campaignId), param(Key("email"), email)>>
       IN Invoke("GetLeadFromCampaign", "read", path, params, GoNil, t,
                 GetLeadFromCampaignReturn(rev, Read(rev, client, path, params, t)))

Payload ==
  TStruct(<<
    TField("name", TStruct(<<TField("last", TString), TField("first", TString)>>)),
    TField("warmup",
           TStruct(<<TField("limit", TInt),
                     TField("advanced",
                            TStruct(<<TField("warm_ctd", TBool), TField("open_rate", TInt),
                                      TField("weekday_only", TBool),
                                      TField("important_rate", TInt),
                                      TField("read_emulation", TBool),
                                      TField("spam_save_rate", TInt),
                                      TField("random_range_min", TInt),
                                      TField("random_range_max", TInt)>>)),
                     TField("increment", TInt), TField("reply_rate", TInt)>>)),
    TField("imap_host", TString), TField("imap_port", TInt), TField("smtp_host", TString),
    TField("smtp_port", TString), TField("daily_limit", TInt),
    TField("sending_gap", TString)>>)

listAccountsResponse ==
  TStruct(<<TField("status", TString),
            TField("accounts",
                   TSlice(TStruct(<<TField("email", TString),
                                    TField("timestamp_created", TString),
                                    TField("timestamp_updated", TString),
                                    TField("payload", TPtr(Payload))>>)))>>)

Account(account, timestampCreated, timestampUpdated) ==
  GoStruct(<<Field("Email", FALSE, Get(account, "email")),
             Field("TimestampCreated", FALSE, GoTime(timestampCreated)),
             Field("TimestampUpdated", FALSE, GoTime(timestampUpdated)),
             Field("Payload", FALSE, Get(account, "payload"))>>)

\* The loop of ListAccounts from the i-th account on: the accounts converted, or
\* the error of the first timestamp that does not parse.
RECURSIVE ConvertAccounts(_, _)
ConvertedAccount(account, created, updated, rest) ==
  IF ~created.ok
  THEN [err |-> Wrap("failed to parse timestamp created", TimeParseError), vals |-> <<>>]
  ELSE IF ~updated.ok
  THEN [err |-> Wrap("failed to parse timestamp updated", TimeParseError), vals |-> <<>>]
  ELSE IF rest.err # NoError THEN rest
  ELSE [err |-> NoError, vals |-> <<Account(account, created.time, updated.time)>> \o rest.vals]
ConvertAccounts(accounts, i) ==
  IF i > Len(accounts) THEN [err |-> NoError, vals |-> <<>>]
  ELSE ConvertedAccount(accounts[i],
                        ParseRFC3339(Get(accounts[i], "timestamp_created").s),
                        ParseRFC3339(Get(accounts[i], "timestamp_updated").s),
                        ConvertAccounts(accounts, i + 1))

\* A conversion that hands back a list beside the error of a timestamp.
ListAccountsConvertedSoFar(out, converted) ==
  IF converted.err # NoError THEN Ret(GoSlice(converted.vals), converted.err, out)
  ELSE Ret(GoSlice(converted.vals), NoError, out)

ListAccountsConverted(out, converted) ==
  IF converted.err # NoError THEN Ret(GoNilSlice, converted.err, out)
  ELSE Ret(GoSlice(converted.vals), NoError, out)

ListAccountsDecoded(out, u) ==
  IF u.err # NoError THEN Ret(GoNilSlice, Wrap("failed to unmarshal list accounts", u.err), out)
  ELSE IF u.val.t = "nil" THEN Panicked(out)
  ELSE IF Get(u.val, "status").s # Success
  THEN Ret(GoNilSlice, Err("failed to list accounts"), out)
  ELSE ListAccountsConverted(out, ConvertAccounts(Get(u.val, "accounts").items, 1))

ListAccountsReturn(r, out) ==
  IF out.err # NoError THEN Ret(GoNilSlice, Wrap("failed to list accounts", out.err), out)
  ELSE ListAccountsDecoded(out, Unmarshal(out.data, DecodeStyle(r, "ListAccounts"),
                                          listAccountsResponse))

ListAccounts ==
  /\ pc = "idle"
  /\ \E limit \in {0, 10}, skip \in {0, 25}, t \in Transports :
       LET path == Path(<<"account", "list">>)
           params == <<param(Key("limit"), Itoa(limit)), param(Key("skip"), Itoa(skip))>>
       IN Invoke("ListAccounts", "read", path, params, GoNil, t,
                 ListAccountsReturn(rev, Read(rev, client, path, params, t)))

\* ----------------------------------------------------------- construction

\* The address of an int variable (part_001 prints it into the URL).
Addresses == {49152, 49160}

\* The hosts a caller hands to WithHost: a name, a name with a port, a name
\* followed by a path, a name with a space, the empty string, a name with a
\* port that is no number.
Hosts ==
  { <<"h">>, <<"h", ":", "8">>, <<"h", "/", "x">>, <<"h", " ">>, <<>>, <<"h", ":", "x">> }
Options ==
  {WithHost(host) : host \in Hosts} \cup {WithApiVersion(v) : v \in (0 - 1)..MaxVersion}
    \cup {WithRateLimit(2, 5), WithHttpClient(1)}
\* The option lists of at most MaxOpts options.
OptionLists == UNION {[1..n -> Options] : n \in 0..MaxOpts}

\* The caller constructs the client: New(apiKey, opts...).
Construct ==
  /\ ~newArgs.called
  /\ \E apiKey \in ApiKeys, opts \in OptionLists, addr \in Addresses :
       \E n \in {New(rev, apiKey, opts, 1, addr)} :
         /\ client' = n.client
         /\ newErr' = n.err
         /\ newArgs' = [called |-> TRUE, apiKey |-> apiKey, opts |-> opts,
                        applied |-> n.applied]
  /\ UNCHANGED <<rev, callVars, rateVars>>

\* ---------------------------------------------------------- rate limiting

(***************************************************************************)
(* Time is a logical clock of ticks, TicksPerSecond to the second.  The    *)
(* limiter releases one token per interval of 1/rate seconds: Take returns *)
(* at once when the limiter has let nobody go yet, and otherwise no sooner *)
(* than one interval after the time it booked for the caller before.  A    *)
(* limiter that sat unused books late callers up to MaxSlack intervals in  *)
(* the past, so that they may go in a burst.  A caller runs the events of  *)
(* its transport helper one step at a time, so that the calls of several   *)
(* goroutines interleave.                                                  *)
(***************************************************************************)
TicksPerSecond == DefaultRate
Interval(limiter) == TicksPerSecond \div limiter.rate
Callers == 1..NumCallers

Max(a, b) == IF a >= b THEN a ELSE b

\* last is the time the limiter booked for the caller it let go last.
EmptyBucket == [granted |-> FALSE, last |-> 0]
Ready(limiter) == ~bucket.granted \/ now >= bucket.last + Interval(limiter)
Booked(limiter) ==
  IF ~bucket.granted THEN now
  ELSE Max(bucket.last + Interval(limiter), now - MaxSlack * Interval(limiter))

\* Before New is called a second time: no second client.
NoPeer ==
  [client |-> NoClient, opts |-> <<>>, bucket |-> EmptyBucket,
   caller |-> [pc |-> "idle", todo |-> <<>>, took |-> FALSE, sent |-> FALSE],
   issued |-> 0, granted |-> 0]

IdleCaller == [pc |-> "idle", todo |-> <<>>, took |-> FALSE, sent |-> FALSE]
NoTally ==
  [issued |-> 0, granted |-> 0, dispatched |-> 0, unlimited |-> 0, completed |-> 0,
   started |-> FALSE, first |-> 0]

\* The calls the callers issue: a read and a write that reach the server, and a
\* read whose URL http.NewRequest refuses.
RateCalls(r, c) ==
  {Read(r, c, Path(<<"campaign", "get", "name">>), CampaignIdParams(campaignId), t) :
     campaignId \in {Plain, Control}, t \in {DoFails, Responds(StatusDoc(Success))}}
  \cup {Write(r, c, Path(<<"campaign", "launch">>), CampaignIdPayload(Plain), t) :
          t \in {ReadFails, Responds(StatusDoc(Success))}}

\* Caller p enters a transport helper, which runs up to its first event.
Issue(p) ==
  /\ callers[p].pc = "idle"
  /\ tally.issued + peer.issued < MaxCalls
  /\ \E out \in RateCalls(rev, client) :
       callers' = [callers EXCEPT ![p] = [pc |-> "running", todo |-> out.events,
                                          took |-> FALSE, sent |-> FALSE]]
  /\ tally' = [tally EXCEPT !.issued = @ + 1, !.started = TRUE,
                            !.first = IF tally.started THEN @ ELSE now]
  /\ UNCHANGED <<newVars, callVars, now, bucket, peer>>

\* rateLimit.Take() returns to caller p.
TakeStep(p) ==
  /\ callers[p].pc = "running"
  /\ callers[p].todo # <<>> /\ Head(callers[p].todo) = "Take"
  /\ Ready(client.options.rateLimit)
  /\ bucket' = [granted |-> TRUE, last |-> Booked(client.options.rateLimit)]
  /\ callers' = [callers EXCEPT ![p].todo = Tail(@), ![p].took = TRUE]
  /\ tally' = [tally EXCEPT !.granted = @ + 1]
  /\ UNCHANGED <<newVars, callVars, now, peer>>

\* httpClient.Do dispatches the request of caller p.
DoStep(p) ==
  /\ callers[p].pc = "running"
  /\ callers[p].todo # <<>> /\ Head(callers[p].todo) = "Do"
  /\ callers' = [callers EXCEPT ![p].todo = Tail(@), ![p].sent = TRUE]
  /\ tally' = [tally EXCEPT !.dispatched = @ + 1,
                            !.unlimited = IF callers[p].took THEN @ ELSE @ + 1]
  /\ UNCHANGED <<newVars, callVars, now, bucket, peer>>

\* The helper returns to caller p.
Return(p) ==
  /\ callers[p].pc = "running"
  /\ callers[p].todo = <<>>
  /\ callers' = [callers EXCEPT ![p] = IdleCaller]
  /\ tally' = [tally EXCEPT !.completed = @ + 1]
  /\ UNCHANGED <<newVars, callVars, now, bucket, peer>>

\* A caller waits in Take for the limiter to release the next token.
Blocked ==
  \E p \in Callers :
    /\ callers[p].pc = "running"
    /\ callers[p].todo # <<>> /\ Head(callers[p].todo) = "Take"
    /\ ~Ready(client.options.rateLimit)

\* Time passes: up to MaxClock on its own, and beyond for as long as a caller
\* waits for it.
Tick ==
  /\ now >= MaxClock => Blocked
  /\ now' = now + 1
  /\ UNCHANGED <<newVars, callVars, bucket, callers, tally, peer>>

\* ---------------------------------------------------------- a second client

\* The limiter ratelimit.New makes on its k-th call in the process: a new one
\* each time.  The limiters callers make themselves have the even ids.
FreshLimiter(k) == 2 * k - 1

\* The process calls New once more, for a second client.
ConstructPeer ==
  /\ peer.client.nil
  /\ \E opts \in {<<>>, <<WithRateLimit(2, 5)>>} :
       \E n \in {New(rev, <<"K2">>, opts, FreshLimiter(2), 49160)} :
         peer' = [peer EXCEPT !.client = n.client, !.opts = opts]
  /\ UNCHANGED <<newVars, callVars, now, bucket, callers, tally>>

\* The two clients hold one and the same limiter.
SharedLimiter == peer.client.options.rateLimit.id = client.options.rateLimit.id
\* The bucket of the limiter the second client holds.
PeerBucket == IF SharedLimiter THEN bucket ELSE peer.bucket
PeerReady ==
  \/ ~PeerBucket.granted
  \/ now >= PeerBucket.last + Interval(peer.client.options.rateLimit)
PeerBooked ==
  IF ~PeerBucket.granted THEN now
  ELSE Max(PeerBucket.last + Interval(peer.client.options.rateLimit),
           now - MaxSlack * Interval(peer.client.options.rateLimit))

\* The caller of the second client enters a transport helper.
IssuePeer ==
  /\ ~peer.client.nil
  /\ peer.caller.pc = "idle"
  /\ tally.issued + peer.issued < MaxCalls
  /\ \E out \in RateCalls(rev, peer.client) :
       peer' = [peer EXCEPT !.caller = [pc |-> "running", todo |-> out.events,
                                        took |-> FALSE, sent |-> FALSE],
                            !.issued = @ + 1]
  /\ UNCHANGED <<newVars, callVars, now, bucket, callers, tally>>

\* rateLimit.Take() returns to the caller of the second client.
TakePeer ==
  /\ peer.caller.pc = "running"
  /\ peer.caller.todo # <<>> /\ Head(peer.caller.todo) = "Take"
  /\ PeerReady
  /\ bucket' = IF SharedLimiter THEN [granted |-> TRUE, last |-> PeerBooked] ELSE bucket
  /\ peer' = [peer EXCEPT !.bucket = IF SharedLimiter THEN @
                                      ELSE [granted |-> TRUE, last |-> PeerBooked],
                          !.caller.todo = Tail(@), !.caller.took = TRUE,
                          !.granted = @ + 1]
  /\ UNCHANGED <<newVars, callVars, now, callers, tally>>

\* httpClient.Do dispatches the request of the second client's caller.
DoPeer ==
  /\ peer.caller.pc = "running"
  /\ peer.caller.todo # <<>> /\ Head(peer.caller.todo) = "Do"
  /\ peer' = [peer EXCEPT !.caller.todo = Tail(@), !.caller.sent = TRUE]
  /\ UNCHANGED <<newVars, callVars, now, bucket, callers, tally>>

\* The helper returns to the caller of the second client.
ReturnPeer ==
  /\ peer.caller.pc = "running"
  /\ peer.caller.todo = <<>>
  /\ peer' = [peer EXCEPT !.caller = NoPeer.caller]
  /\ UNCHANGED <<newVars, callVars, now, bucket, callers, tally>>

\* -------------------------------------------------------- specifications

\* The option lists New is given before endpoint methods are called.
CallOptions == {<<>>, <<WithHost(<<"h", ":", "8">>), WithApiVersion(2)>>}

InitRate ==
  /\ now = 0
  /\ bucket = EmptyBucket
  /\ callers = [p \in Callers |-> IdleCaller]
  /\ tally = NoTally
  /\ peer = NoPeer

InitCalls(revs) ==
  /\ rev \in revs
  /\ \E apiKey \in ApiKeys, opts \in CallOptions, addr \in Addresses :
       \E n \in {New(rev, apiKey, opts, 1, addr)} :
         /\ client = n.client
         /\ newErr = n.err
         /\ newArgs = [called |-> TRUE, apiKey |-> apiKey, opts |-> opts,
                       applied |-> n.applied]
  /\ pc = "idle"
  /\ inv = NoInv
  /\ ret = NoRet
  /\ InitRate

\* instantly.go, a client constructed, its methods called one at a time.
Init == InitCalls({InstantlyGo})

Next ==
  \/ Authenticate
  \/ ListCampaigns
  \/ GetCampaignName
  \/ GetCampaignAccounts
  \/ GetCampaignSummary
  \/ GetCampaignCount
  \/ GetLeadFromCampaign
  \/ ListAccounts
  \/ SetCampaignName
  \/ SetCampaignAccounts
  \/ AddSendingAccount
  \/ RemoveSendingAccount
  \/ LaunchCampaign
  \/ PauseCampaign
  \/ SetCampaignSchedule
  \/ DeleteLeadsFromCampaign
  \/ UpdateLeadStatus
  \/ UpdateLeadVariable
  \/ SetLeadVariable
  \/ DeleteLeadVariables
  \/ EnableWarmup
  \/ PauseWarmup
  \/ MarkAccountAsFixed
  \/ MarkAllAccountsAsFixed
  \/ DeleteAccount
  \/ AddEntriesToBlocklist
  \/ CheckAccountVitals
  \/ AddLeadsToCampaign
  \/ Discard

Spec == Init /\ [][Next]_vars

\* Both source files.
InitAll == InitCalls(Revisions)
SpecAll == InitAll /\ [][Next]_vars

\* instantly.go from before the client is constructed: New with every option
\* list, then a read and a write.
InitNew ==
  /\ rev = InstantlyGo
  /\ client = NoClient
  /\ newErr = NoError
  /\ newArgs = NoArgs
  /\ pc = "idle"
  /\ inv = NoInv
  /\ ret = NoRet
  /\ InitRate
NextNew ==
  \/ Construct
  \/ GetCampaignName
  \/ LaunchCampaign
  \/ Discard
SpecNew == InitNew /\ [][NextNew]_vars

\* instantly.go with callers that run their calls step by step against the
\* clock: a client with the default limiter, and one with a limiter of its own.
RateOptions == {<<>>, <<WithRateLimit(2, 5)>>}
InitTimed ==
  /\ rev = InstantlyGo
  /\ \E opts \in RateOptions :
       \E n \in {New(rev, <<"K1">>, opts, 1, 49152)} :
         /\ client = n.client
         /\ newErr = n.err
         /\ newArgs = [called |-> TRUE, apiKey |-> <<"K1">>, opts |-> opts,
                       applied |-> n.applied]
  /\ pc = "idle"
  /\ inv = NoInv
  /\ ret = NoRet
  /\ InitRate
NextTimed ==
  \/ \E p \in Callers : Issue(p)
  \/ \E p \in Callers : TakeStep(p)
  \/ \E p \in Callers : DoStep(p)
  \/ \E p \in Callers : Return(p)
  \/ Tick
SpecTimed == InitTimed /\ [][NextTimed]_vars

\* The same, with the scheduling the calls rely on: time passes, the limiter
\* grants every waiter a token in the end, the HTTP client returns from Do, and
\* a call that has nothing left to do returns.
FairTimed ==
  /\ WF_vars(Tick)
  /\ \A p \in Callers : SF_vars(TakeStep(p))
  /\ \A p \in Callers : WF_vars(DoStep(p))
  /\ \A p \in Callers : WF_vars(Return(p))
SpecTimedFair == InitTimed /\ [][NextTimed]_vars /\ FairTimed

\* instantly.go with two clients in one process, a caller on each.
NextPeers ==
  \/ Issue(1)
  \/ TakeStep(1)
  \/ DoStep(1)
  \/ Return(1)
  \/ Tick
  \/ ConstructPeer
  \/ IssuePeer
  \/ TakePeer
  \/ DoPeer
  \/ ReturnPeer
SpecPeers == InitTimed /\ [][NextPeers]_vars

\* ---------------------------------------------------------------- claims

\* The transport dispatched the request and handed the response body back.
Answered == pc = "returned" /\ ret.req.sent /\ inv.t.kind = "Bytes"

\* C1: every HTTP dispatch of a transport helper comes, within the same
\* invocation, directly after an acquisition from the client's rate limiter:
\* among the events of an invocation every "Do" follows a "Take".
C1_DoOnlyAfterTake ==
  \A i \in 1..Len(ret.events) :
    ret.events[i] = "Do" => (i > 1 /\ ret.events[i - 1] = "Take")

\* The pairs of a raw query string: it is split at every "&", and each piece at
\* its first "=".
QueryPairs(rawQuery) ==
  LET pieces == Split(rawQuery, "&")
  IN [i \in 1..Len(pieces) |-> param(Cut(pieces[i], "=").before, Cut(pieces[i], "=").after)]

\* C3: the query string of the URL a read call requests holds api_key once,
\* with the client's key, and then one parameter per supplied pair, in the
\* supplied order, and nothing else.
C3_QueryIsKeyThenParams ==
  (pc = "returned" /\ inv.kind = "read" /\ ret.req.sent) =>
    QueryPairs(ParseUrl(ret.req.url).rawQuery)
      = <<param(Key("api_key"), client.apiKey)>> \o inv.params

\* The write methods that return only an error.
StatusOnlyMethods ==
  { "SetCampaignName", "SetCampaignAccounts", "AddSendingAccount", "RemoveSendingAccount",
    "SetCampaignSchedule", "LaunchCampaign", "PauseCampaign", "DeleteLeadsFromCampaign",
    "UpdateLeadStatus", "UpdateLeadVariable", "SetLeadVariable", "DeleteLeadVariables",
    "EnableWarmup", "PauseWarmup", "MarkAccountAsFixed", "MarkAllAccountsAsFixed",
    "DeleteAccount" }

\* C6: a status-only write method returns no error when the transport hands
\* back {"status":"success"} and an error when it hands back
\* {"status":"failed"}.
C6_StatusDecidesError ==
  (Answered /\ inv.name \in StatusOnlyMethods) =>
    /\ inv.t.bytes = StatusDoc(Success) => (~ret.panicked /\ ret.err = NoError)
    /\ inv.t.bytes = StatusDoc(<<"failed">>) => (~ret.panicked /\ ret.err # NoError)
\* DeleteAccount was answered {"status":"failed"} and returned an error.
C6_Witness ==
  /\ Answered /\ inv.name = "DeleteAccount"
  /\ inv.t.bytes = StatusDoc(<<"failed">>)
  /\ ret.err = Err("failed to delete account")

\* C7: GetLeadFromCampaign, answered an array, returns "no lead found" when the
\* array is empty and "multiple leads found" when it holds two or more
\* elements, and returns without error only when it holds exactly one.
C7_LeadOnlyWhenExactlyOne ==
  (Answered /\ inv.name = "GetLeadFromCampaign" /\ inv.t.bytes.kind = "array") =>
    /\ ~ret.panicked
    /\ Len(inv.t.bytes.items) = 0 => ret.err = Err("no lead found")
    /\ Len(inv.t.bytes.items) >= 2 => ret.err = Err("multiple leads found")
    /\ ret.err = NoError => Len(inv.t.bytes.items) = 1

\* C10: no endpoint method panics, whatever the transport does and whatever
\* body it hands back.
C10_NoMethodPanics == ~ret.panicked

\* A JSON document with the members of every object sorted by key: two
\* documents with the same Canon differ only in the order of members.
RECURSIVE Canon(_)
Canon(j) ==
  IF j.kind = "object"
  THEN JObj(SortedMembers([i \in 1..Len(j.members) |->
                             Member(j.members[i].key, Canon(j.members[i].val))], 1))
  ELSE IF j.kind = "array" THEN JArr([i \in 1..Len(j.items) |-> Canon(j.items[i])])
  ELSE j

\* C4: the body of the request a write call sends is the marshaled payload
\* with one more top-level member, api_key, holding the client's key.
C4_BodyIsPayloadPlusKey ==
  (pc = "returned" /\ inv.kind = "write" /\ ret.req.sent) =>
    ret.req.body
      = Canon(JObj(Marshal(inv.payload).members
                     \o <<Member("api_key", JStr(client.apiKey))>>))

\* The response type of the typed-result methods the claim singles out, and
\* whether a document is a JSON value of that shape: it decodes without error
\* into an allocated value of the type.
ResponseType(name) ==
  CASE name = "GetCampaignSummary" -> getCampaignSummaryResponse
    [] name = "GetCampaignCount" -> getCampaignCountResponse
    [] name = "AddLeadsToCampaign" -> addLeadsToCampaignResponse
    [] OTHER -> listCampaignsResponse
ExpectedShape(name, doc) ==
  /\ doc.kind = (IF name = "ListCampaigns" THEN "array" ELSE "object")
  /\ Unmarshal(doc, Allocated, ResponseType(name)).err = NoError

\* C9: GetCampaignSummary, GetCampaignCount, AddLeadsToCampaign and
\* ListCampaigns, answered well-formed JSON of their response shape, return
\* a result and no error.
C9_TypedResultDecodes ==
  (/\ Answered
   /\ inv.name \in {"GetCampaignSummary", "GetCampaignCount", "AddLeadsToCampaign",
                    "ListCampaigns"}
   /\ ExpectedShape(inv.name, inv.t.bytes)) =>
    (~ret.panicked /\ ret.err = NoError /\ ret.val # GoNil)

\* C5: the URL a client requests for a path is https://{host}/api/v{version}/
\* and the path, with the host and the version of the client New returned, the
\* version written as a decimal integer.
C5_UrlIsHostVersionPath ==
  (pc = "returned" /\ ret.req.sent) =>
    LET pre == Scheme \o client.options.host \o <<"/", "api", "/", "v">>
        rest == SubSeq(ret.req.url, Len(pre) + 1, Len(ret.req.url))
        seg == Cut(rest, "/")
    IN /\ HasPrefix(ret.req.url, pre)
       /\ seg.found /\ seg.before # <<>> /\ IsDigits(seg.before) /\ seg.before[1] # "0"
       /\ Atoi(seg.before) = client.options.apiVersion
       /\ Cut(seg.after, "?").before = inv.path
\* New was given the host h:8 and the version 2, and LaunchCampaign requested
\* https://h:8/api/v2/campaign/launch.
C5_Witness ==
  /\ pc = "returned" /\ ret.req.sent /\ inv.name = "LaunchCampaign"
  /\ \E i, j \in 1..Len(newArgs.opts) :
       newArgs.opts[i] = WithHost(<<"h", ":", "8">>) /\ newArgs.opts[j] = WithApiVersion(2)
  /\ ret.req.url = <<"https", ":", "/", "/", "h", ":", "8", "/", "api", "/", "v", "2", "/",
                     "campaign", "/", "launch">>

\* C8: New returns no client and an error whenever an option carries a version
\* below 1 or a host that does not parse as a URL authority, and every client
\* New returns has a version of at least 1 and a non-empty host that parses as
\* a URL authority.
C8_NewValidates ==
  newArgs.called =>
    /\ (\E i \in 1..Len(newArgs.opts) :
          \/ newArgs.opts[i].opt = "WithApiVersion" /\ newArgs.opts[i].version < 1
          \/ newArgs.opts[i].opt = "WithHost" /\ ~ValidAuthority(newArgs.opts[i].host))
         => (client.nil /\ newErr # NoError)
    /\ ~client.nil => /\ client.options.apiVersion >= 1
                      /\ client.options.host # <<>>
                      /\ ValidAuthority(client.options.host)

\* C2 as stated: when N calls have completed on one client whose limiter
\* allows R per second, at least (N-1)/R seconds have passed since the first
\* was issued, whatever the calls.
C2_CompletedCallsTakeTime ==
  tally.completed >= 1 =>
    (now - tally.first) * client.options.rateLimit.rate
      >= (tally.completed - 1) * TicksPerSecond
\* C2, amended: when N requests have been dispatched on one client whose
\* limiter allows R per second, at least (N-1)/R seconds have passed since the
\* first call was issued; a call that fails before its dispatch takes no time.
C2_DispatchedCallsTakeTime ==
  tally.dispatched >= 1 =>
    (now - tally.first) * client.options.rateLimit.rate
      >= (tally.dispatched - 1) * TicksPerSecond
\* Three requests were dispatched on a client limited to 5 per second, and the
\* clock stands at 2/5 of a second.
C2_Witness ==
  /\ client.options.rateLimit.rate = 5
  /\ tally.dispatched = 3 /\ tally.completed = 3
  /\ tally.first = 0 /\ now = 2 * Interval(client.options.rateLimit)

\* C11: every write is sent as a POST with Content-Type application/json to
\* a URL without a query string, the API key in the JSON body and not in the
\* URL; every read is sent as a GET with no body and no Content-Type, the API
\* key in the query string.
C11_WritesPostReadsGet ==
  (pc = "returned" /\ ret.req.sent) =>
    IF inv.kind = "write"
    THEN /\ ret.req.method = "POST"
         /\ ret.req.contentType = "application/json"
         /\ ~Contains(ret.req.url, "?")
         /\ ~HasSubstring(ret.req.url, client.apiKey)
         /\ ret.req.body.kind = "object"
         /\ HasKey(ret.req.body.members, "api_key")
         /\ Lookup(ret.req.body.members, "api_key") = JStr(client.apiKey)
    ELSE /\ ret.req.method = "GET"
         /\ ret.req.contentType = ""
         /\ ret.req.body = NoBody
         /\ HasPrefix(ParseUrl(ret.req.url).rawQuery, <<"api_key", "=">> \o client.apiKey)

\* How often event e occurs among events.
Count(events, e) == Cardinality({i \in 1..Len(events) : events[i] = e})

\* C12: an invocation of an endpoint method dispatches at most one request
\* and acquires at most one rate-limit token; when the transport fails or the
\* response is no JSON, the method returns an error and has dispatched that
\* one request only.
C12_AtMostOneRequest ==
  /\ Count(ret.events, "Do") <= 1
  /\ Count(ret.events, "Take") <= 1
  /\ (pc = "returned" /\ ret.req.sent
        /\ (\/ inv.t.kind \in {"DoError", "ReadError"}
            \/ (inv.t.bytes = JInvalid /\ inv.name # "Authenticate")))
       => (~ret.panicked /\ ret.err # NoError /\ ret.events = <<"Take", "Do">>)
\* SetCampaignName, its connection refused, returned the error after one
\* acquisition and one dispatch.
C12_Witness ==
  /\ pc = "returned" /\ inv.name = "SetCampaignName" /\ inv.t = DoFails
  /\ ret.req.sent /\ ret.events = <<"Take", "Do">>
  /\ ret.err # NoError

\* Whether s ends with suffix.
HasSuffix(s, suffix) ==
  Len(s) >= Len(suffix) /\ SubSeq(s, Len(s) - Len(suffix) + 1, Len(s)) = suffix

\* The three transport failures of an invocation: the request cannot be
\* constructed (a control character in a query value), Do fails, reading the
\* response body fails.
ConstructionFails ==
  /\ pc = "returned" /\ inv.kind = "read"
  /\ \E i \in 1..Len(inv.params) : Contains(inv.params[i].value, CTL)
ExecutionFails == pc = "returned" /\ ret.req.sent /\ inv.t.kind = "DoError"
BodyReadFails == pc = "returned" /\ ret.req.sent /\ inv.t.kind = "ReadError"

\* C13: on each of the three transport failures get and post hand back nil
\* data and an error that names the failure, and the endpoint method returns
\* an error that wraps the helper's: it decoded nothing.
C13_TransportFailureIsReturned ==
  /\ (ConstructionFails \/ ExecutionFails \/ BodyReadFails) =>
       /\ ~ret.panicked
       /\ ret.helper.data = NilData
       /\ ret.helper.err # NoError
       /\ ret.err # NoError
       /\ HasSuffix(ret.err, <<": ">> \o ret.helper.err)
  /\ ConstructionFails =>
       (~ret.req.sent /\ HasSubstring(ret.helper.err, <<"failed to create request">>))
  /\ ExecutionFails =>
       HasSubstring(ret.helper.err, <<"failed to execute request", ": ", "GET">>)
         \/ HasSubstring(ret.helper.err, <<"failed to execute request", ": ", "POST">>)
  /\ BodyReadFails => HasSubstring(ret.helper.err, <<"failed to read response body">>)
\* LaunchCampaign, the response body cut short, returned the read error
\* wrapped by call, by post and by itself.
C13_Witness ==
  /\ pc = "returned" /\ inv.name = "LaunchCampaign" /\ inv.t = ReadFails
  /\ ret.helper.data = NilData
  /\ ret.err = <<"failed to launch campaign", ": ", "failed to execute request", ": ",
                 "failed to read response body", ": ", "unexpected EOF">>

\* The methods whose response shape carries a status field.
StatusMethods ==
  StatusOnlyMethods
    \cup {"AddLeadsToCampaign", "AddEntriesToBlocklist", "ListAccounts", "CheckAccountVitals"}
\* The status members of a response, under any spelling of the name, and the
\* value of the last, which is the one a decoder keeps.
StatusMembers(doc) ==
  IF doc.kind = "object" THEN SelectSeq(doc.members, LAMBDA m : FoldKey(m.key) = "status")
  ELSE <<>>
StatusValue(doc) == StatusMembers(doc)[Len(StatusMembers(doc))].val
\* What a method returns beside an error: nil, a nil slice, 0, two nil slices.
NoData == {GoNil, GoNilSlice, GoInt(FALSE, 0, 0), VitalsLists(GoNilSlice, GoNilSlice)}

\* C14: a method whose response carries a status, answered a status other
\* than the string "success", returns an error and no data; answered
\* "success", it returns no error that the status caused.
C14_OnlySuccessSucceeds ==
  (Answered /\ inv.name \in StatusMethods /\ StatusMembers(inv.t.bytes) # <<>>) =>
    /\ ~ret.panicked
    /\ StatusValue(inv.t.bytes) # JStr(Success) => (ret.err # NoError /\ ret.val \in NoData)
    /\ StatusValue(inv.t.bytes) = JStr(Success) =>
         \/ ret.err = NoError
         \/ (Len(ret.err) > 1 /\ ret.err[Len(ret.err)] # "success")
\* AddEntriesToBlocklist, answered a refusal that counts two entries added,
\* returned 0 and the error.
C14_Witness ==
  /\ Answered /\ inv.name = "AddEntriesToBlocklist" /\ inv.t.bytes = RefusedDoc
  /\ ret.val = GoInt(FALSE, 0, 0)
  /\ ret.err = Err("failed to add entries to blocklist")

\* s is four digits, a dash, two digits, a dash, two digits, and reads as the
\* year, month and day of t.
IsYMD(s, t) ==
  /\ Len(s) = 10 /\ s[5] = "-" /\ s[8] = "-"
  /\ IsDigits(SubSeq(s, 1, 4)) /\ IsDigits(SubSeq(s, 6, 7)) /\ IsDigits(SubSeq(s, 9, 10))
  /\ Atoi(SubSeq(s, 1, 4)) = t.year
  /\ Atoi(SubSeq(s, 6, 7)) = t.month
  /\ Atoi(SubSeq(s, 9, 10)) = t.day
\* s is two digits, a colon, two digits, and reads as the hour of the day and
\* the minute of t.
IsHM(s, t) ==
  /\ Len(s) = 5 /\ s[3] = ":"
  /\ IsDigits(SubSeq(s, 1, 2)) /\ IsDigits(SubSeq(s, 4, 5))
  /\ Atoi(SubSeq(s, 1, 2)) = t.hour
  /\ Atoi(SubSeq(s, 4, 5)) = t.min
IsStr(j) == j.kind = "string"
\* The submitted block j is the schedule block s.
IsBlock(j, s) ==
  /\ j.kind = "object"
  /\ Lookup(j.members, "name") = JStr(s.name)
  /\ Lookup(j.members, "days").kind = "object"
  /\ Len(Lookup(j.members, "days").members) = Len(s.days)
  /\ \A d \in 1..Len(s.days) :
       /\ HasKey(Lookup(j.members, "days").members, DigitTok[s.days[d].day + 1])
       /\ Lookup(Lookup(j.members, "days").members, DigitTok[s.days[d].day + 1])
            = JBool(s.days[d].value)
  /\ Lookup(j.members, "timezone")
       = JStr(IF s.timezone.nil THEN <<"UTC">> ELSE s.timezone.name)
  /\ Lookup(j.members, "timing").kind = "object"
  /\ IsStr(Lookup(Lookup(j.members, "timing").members, "from"))
  /\ IsHM(Lookup(Lookup(j.members, "timing").members, "from").s, s.from)
  /\ IsStr(Lookup(Lookup(j.members, "timing").members, "to"))
  /\ IsHM(Lookup(Lookup(j.members, "timing").members, "to").s, s.to)
SubmittedSchedule ==
  pc = "returned" /\ ret.req.sent /\ inv.name = "SetCampaignSchedule"

\* C15: the body SetCampaignSchedule submits holds the start date as
\* YYYY-MM-DD, an end_date exactly when an end date was given (as YYYY-MM-DD),
\* and one block per schedule, in the order given: its name, its days keyed by
\* the decimal weekday number, its zone's name, and from and to as HH:MM.
C15_ScheduleBody ==
  SubmittedSchedule =>
    /\ ret.req.body.kind = "object"
    /\ HasKey(ret.req.body.members, "start_date")
    /\ IsStr(Lookup(ret.req.body.members, "start_date"))
    /\ IsYMD(Lookup(ret.req.body.members, "start_date").s, inv.args.dates[1])
    /\ HasKey(ret.req.body.members, "end_date") <=> ~inv.args.dates[2].nil
    /\ ~inv.args.dates[2].nil =>
         /\ IsStr(Lookup(ret.req.body.members, "end_date"))
         /\ IsYMD(Lookup(ret.req.body.members, "end_date").s, inv.args.dates[2].time)
    /\ HasKey(ret.req.body.members, "schedules")
    /\ Lookup(ret.req.body.members, "schedules").kind = "array"
    /\ Len(Lookup(ret.req.body.members, "schedules").items) = Len(inv.args.schedules)
    /\ \A i \in 1..Len(inv.args.schedules) :
         IsBlock(Lookup(ret.req.body.members, "schedules").items[i], inv.args.schedules[i])
\* The block named Morning, from 2024-01-15 with no end date.
C15_Witness ==
  /\ SubmittedSchedule
  /\ inv.args = CallArgs(Morning, NilTime, <<Office>>)
  /\ Lookup(ret.req.body.members, "start_date") = JStr(<<"2", "0", "2", "4", "-", "0", "1", "-", "1", "5">>)
  /\ ~HasKey(ret.req.body.members, "end_date")
  /\ Lookup(ret.req.body.members, "schedules") =
       JArr(<<JObj(<<Member("days", JObj(<<Member("1", JBool(TRUE)), Member("3", JBool(TRUE)),
                                           Member("5", JBool(TRUE))>>)),
                     Member("name", JStr(<<"Morning">>)),
                     Member("timezone", JStr(<<"America", "/", "New_York">>)),
                     Member("timing",
                            JObj(<<Member("from", JStr(<<"0", "9", ":", "0", "0">>)),
                                   Member("to", JStr(<<"1", "7", ":", "0", "0">>))>>))>>)>>)

\* s is two digits, a dash, two digits, a dash, four digits, and reads as the
\* month, day and year of t.
IsMDY(s, t) ==
  /\ Len(s) = 10 /\ s[3] = "-" /\ s[6] = "-"
  /\ IsDigits(SubSeq(s, 1, 2)) /\ IsDigits(SubSeq(s, 4, 5)) /\ IsDigits(SubSeq(s, 7, 10))
  /\ Atoi(SubSeq(s, 1, 2)) = t.month
  /\ Atoi(SubSeq(s, 4, 5)) = t.day
  /\ Atoi(SubSeq(s, 7, 10)) = t.year
\* The values the query string of the request gives the parameter name.
QueryValues(name) ==
  LET pairs == QueryPairs(ParseUrl(ret.req.url).rawQuery)
  IN {pairs[i].value : i \in {k \in 1..Len(pairs) : pairs[k].key = Key(name)}}
SubmittedCount == pc = "returned" /\ ret.req.sent /\ inv.name = "GetCampaignCount"
ScheduleDatesAreYMD ==
  SubmittedSchedule =>
    /\ IsYMD(Lookup(ret.req.body.members, "start_date").s, inv.args.dates[1])
    /\ ~inv.args.dates[2].nil =>
         /\ HasKey(ret.req.body.members, "end_date")
         /\ IsYMD(Lookup(ret.req.body.members, "end_date").s, inv.args.dates[2].time)

\* C16, as stated: every date a method submits is YYYY-MM-DD, the start and
\* end dates of SetCampaignSchedule and the start_date and end_date queries of
\* GetCampaignCount alike.
C16_EveryDateIsYMD ==
  /\ ScheduleDatesAreYMD
  /\ SubmittedCount =>
       /\ QueryValues("start_date") # {}
       /\ \A s \in QueryValues("start_date") : IsYMD(s, inv.args.dates[1])
       /\ ~inv.args.dates[2].nil =>
            /\ QueryValues("end_date") # {}
            /\ \A s \in QueryValues("end_date") : IsYMD(s, inv.args.dates[2].time)
\* C16, amended: the start and end dates of SetCampaignSchedule are submitted
\* as YYYY-MM-DD, the start_date and end_date queries of GetCampaignCount as
\* MM-DD-YYYY.
C16_DatesByEndpoint ==
  /\ ScheduleDatesAreYMD
  /\ SubmittedCount =>
       /\ QueryValues("start_date") # {}
       /\ \A s \in QueryValues("start_date") : IsMDY(s, inv.args.dates[1])
       /\ ~inv.args.dates[2].nil =>
            /\ QueryValues("end_date") # {}
            /\ \A s \in QueryValues("end_date") : IsMDY(s, inv.args.dates[2].time)
\* GetCampaignCount from 2024-01-15 to 2024-12-05 asked for 01-15-2024 to
\* 12-05-2024.
C16_Witness ==
  /\ SubmittedCount
  /\ inv.args = CallArgs(Morning, TimePtr(Evening), <<>>)
  /\ QueryValues("start_date") = {<<"0", "1", "-", "1", "5", "-", "2", "0", "2", "4">>}
  /\ QueryValues("end_date") = {<<"1", "2", "-", "0", "5", "-", "2", "0", "2", "4">>}

\* The options of the kind opt that New was handed, in order.
Given(opt) == SelectSeq(newArgs.opts, LAMBDA o : o.opt = opt)
LastGiven(opt) == Given(opt)[Len(Given(opt))]
Constructed == newArgs.called /\ ~client.nil

\* C17: a client New returns has the host api.instantly.ai, the version 1, a
\* limiter of 10 per second of its own and the default HTTP client, each
\* unless an option for that very field was given; the field an option was
\* given for holds what the last such option carried (the default host when
\* that is the empty host).
C17_DefaultsAndOverrides ==
  Constructed =>
    /\ client.apiKey = newArgs.apiKey
    /\ client.options.host =
         IF Given("WithHost") = <<>> THEN <<"api.instantly.ai">>
         ELSE IF LastGiven("WithHost").host = <<>> THEN <<"api.instantly.ai">>
         ELSE LastGiven("WithHost").host
    /\ client.options.apiVersion =
         IF Given("WithApiVersion") = <<>> THEN 1 ELSE LastGiven("WithApiVersion").version
    /\ client.options.rateLimit =
         IF Given("WithRateLimit") = <<>> THEN [nil |-> FALSE, id |-> 1, rate |-> 10]
         ELSE [nil |-> FALSE, id |-> LastGiven("WithRateLimit").handle,
               rate |-> LastGiven("WithRateLimit").rate]
    /\ client.options.httpClient =
         IF Given("WithHttpClient") = <<>> THEN [nil |-> FALSE, id |-> 0]
         ELSE [nil |-> FALSE, id |-> LastGiven("WithHttpClient").handle]
\* New("K1", WithHost("h:8"), WithApiVersion(2)) returned a client of that
\* host and version with the default limiter and HTTP client.
C17_Witness ==
  /\ Constructed
  /\ newArgs.opts = <<WithHost(<<"h", ":", "8">>), WithApiVersion(2)>>
  /\ client.options.host = <<"h", ":", "8">>
  /\ client.options.apiVersion = 2
  /\ client.options.rateLimit = Limiter(1, 10)
  /\ client.options.httpClient = DefaultHttpClient

\* C18: no step of an endpoint method changes the client's API key, host,
\* version, limiter handle or HTTP-client handle.
C18_ConfigurationIsFrozen ==
  [][/\ client'.apiKey = client.apiKey
     /\ client'.options.host = client.options.host
     /\ client'.options.apiVersion = client.options.apiVersion
     /\ client'.options.rateLimit = client.options.rateLimit
     /\ client'.options.httpClient = client.options.httpClient]_vars
\* A call has dispatched its request and returned, and the client is the one
\* New built with a host and a version of the caller's.
C18_Witness ==
  /\ pc = "returned" /\ ret.req.sent
  /\ newArgs.opts = <<WithHost(<<"h", ":", "8">>), WithApiVersion(2)>>
  /\ client = New(rev, newArgs.apiKey, newArgs.opts, 1, 0).client
  /\ client.options.apiVersion = 2

\* Caller p is inside a call that has dispatched its request.
Dispatched(p) ==
  callers[p].pc = "running" /\ callers[p].sent
\* The tokens the limiter has granted are those its one bucket has booked.
OneLimiter == tally.granted > 0 => bucket.granted

\* C19: however the steps of concurrent calls on one client interleave, every
\* dispatch follows a token its own call acquired from the client's one
\* limiter, the requests dispatched never outnumber the tokens granted, and no
\* step of a call writes the configuration the others read.
C19_DispatchFollowsOwnToken ==
  /\ [](/\ tally.unlimited = 0
        /\ tally.dispatched <= tally.granted
        /\ OneLimiter
        /\ \A p \in Callers :
             (callers[p].pc = "running" /\ callers[p].todo = <<"Do">>) => callers[p].took)
  /\ [][client' = client]_vars
\* Two callers are inside their calls at once: both hold a token, one has
\* dispatched and the other has not yet.
C19_Witness ==
  /\ Dispatched(1) /\ callers[1].took
  /\ callers[2].pc = "running" /\ callers[2].todo = <<"Do">> /\ callers[2].took
  /\ tally.granted = 2 /\ tally.dispatched = 1

\* Caller p is inside a call whose request was constructed.
Pending(p) == callers[p].pc = "running" /\ callers[p].todo # <<>>
\* The callers that hold a token and have not dispatched yet.
Holding ==
  {p \in Callers : callers[p].pc = "running" /\ callers[p].took /\ ~callers[p].sent}
\* Take turns nobody away: a caller that holds a token has its dispatch still
\* to do, and every token granted is dispatched on or held.
NeverRejected ==
  /\ \A p \in Holding : callers[p].todo = <<"Do">>
  /\ tally.granted = tally.dispatched + Cardinality(Holding)

\* C20: the limiter never turns a call away, and, when the limiter grants
\* every waiter a token in the end and the HTTP client returns, every call
\* whose request was constructed is dispatched in the end and every call
\* returns in the end.
C20_EveryCallReturns ==
  /\ []NeverRejected
  /\ \A p \in Callers : Pending(p) ~> Dispatched(p)
  /\ \A p \in Callers : (callers[p].pc = "running") ~> (callers[p].pc = "idle")
\* A caller waits for a token at the end of the clock's own run, the token of
\* the call before it not yet an interval old.
C20_Witness ==
  /\ Blocked
  /\ now = MaxClock
  /\ callers[2].pc = "running" /\ callers[2].todo = <<"Take", "Do">>
  /\ Dispatched(1)

\* New was handed no WithRateLimit for either client.
BothByDefault ==
  /\ ~peer.client.nil
  /\ \A i \in 1..Len(newArgs.opts) : newArgs.opts[i].opt # "WithRateLimit"
  /\ \A i \in 1..Len(peer.opts) : peer.opts[i].opt # "WithRateLimit"

\* C21: two clients built by New without WithRateLimit hold distinct
\* limiters, and a token taken by a call on one leaves the bucket of the other
\* as it was.
C21_LimiterPerClient ==
  /\ [](BothByDefault => ~SharedLimiter)
  /\ [][BothByDefault =>
          /\ (peer'.granted # peer.granted => bucket' = bucket)
          /\ (tally'.granted # tally.granted => PeerBucket' = PeerBucket)]_vars
\* Both clients were built without WithRateLimit, and each caller took a
\* token at the same tick.
C21_Witness ==
  /\ BothByDefault
  /\ tally.granted = 1 /\ peer.granted = 1
  /\ bucket = [granted |-> TRUE, last |-> now]
  /\ peer.bucket = [granted |-> TRUE, last |-> now]

\* What each status-only method says when the call fails and when the
\* response does not decode, and whether it appends the status.
StatusOnlyMessages(name) ==
  CASE name = "SetCampaignName" ->
         <<"failed to set campaign name",
           "failed to unmarshal campaign name", TRUE>>
    [] name = "SetCampaignAccounts" ->
         <<"failed to set campaign accounts",
           "failed to unmarshal campaign accounts", TRUE>>
    [] name = "AddSendingAccount" ->
         <<"failed to add sending account",
           "failed to unmarshal sending account", TRUE>>
    [] name = "RemoveSendingAccount" ->
         <<"failed to remove sending account",
           "failed to unmarshal sending account", TRUE>>
    [] name = "LaunchCampaign" ->
         <<"failed to launch campaign",
           "failed to unmarshal campaign launch", TRUE>>
    [] name = "PauseCampaign" ->
         <<"failed to pause campaign",
           "failed to unmarshal campaign pause", TRUE>>
    [] name = "SetCampaignSchedule" ->
         <<"failed to set campaign schedule",
           "failed to unmarshal campaign schedule", TRUE>>
    [] name = "DeleteLeadsFromCampaign" ->
         <<"failed to delete leads from campaign",
           "failed to unmarshal delete leads from campaign", FALSE>>
    [] name = "UpdateLeadStatus" ->
         <<"failed to update lead status",
           "failed to unmarshal update lead status", FALSE>>
    [] name = "UpdateLeadVariable" ->
         <<"failed to update lead variable",
           "failed to unmarshal update lead variable", FALSE>>
    [] name = "SetLeadVariable" ->
         <<"failed to set lead variable",
           "failed to unmarshal set lead variable", FALSE>>
    [] name = "DeleteLeadVariables" ->
         <<"failed to delete lead variables",
           "failed to unmarshal delete lead variables", FALSE>>
    [] name = "EnableWarmup" ->
         <<"failed to enable warmup",
           "failed to unmarshal enable warmup", FALSE>>
    [] name = "PauseWarmup" ->
         <<"failed to pause warmup",
           "failed to unmarshal pause warmup", FALSE>>
    [] name = "MarkAccountAsFixed" ->
         <<"failed to mark accounts as fixed",
           "failed to unmarshal mark accounts as fixed", FALSE>>
    [] name = "MarkAllAccountsAsFixed" ->
         <<"failed to mark accounts as fixed",
           "failed to unmarshal mark accounts as fixed", FALSE>>
    [] name = "DeleteAccount" ->
         <<"failed to delete account",
           "failed to unmarshal delete account", FALSE>>
\* What method name returns once its transport helper has returned out.
MethodReturn(name, r, out) ==
  CASE name \in StatusOnlyMethods ->
         StatusOnly(r, name, out, StatusOnlyMessages(name)[1], StatusOnlyMessages(name)[2],
                    StatusOnlyMessages(name)[3])
    [] name = "AddEntriesToBlocklist" -> AddEntriesToBlocklistReturn(r, out)
    [] name = "CheckAccountVitals" -> CheckAccountVitalsReturn(r, out)
    [] name = "AddLeadsToCampaign" -> AddLeadsToCampaignReturn(r, out)
    [] name = "Authenticate" -> AuthenticateReturn(out)
    [] name = "ListCampaigns" -> ListCampaignsReturn(r, out)
    [] name = "GetCampaignName" -> GetCampaignNameReturn(r, out)
    [] name = "GetCampaignAccounts" -> GetCampaignAccountsReturn(r, out)
    [] name = "GetCampaignSummary" -> GetCampaignSummaryReturn(r, out)
    [] name = "GetCampaignCount" -> GetCampaignCountReturn(r, out)
    [] name = "GetLeadFromCampaign" -> GetLeadFromCampaignReturn(r, out)
    [] name = "ListAccounts" -> ListAccountsReturn(r, out)
\* The client that differs from c in its API key alone.
OtherKey(c) == [c EXCEPT !.apiKey = CHOOSE k \in ApiKeys : k # c.apiKey]
\* What the transport helper of the method invoked returns to client c.
HelperOut(c) ==
  IF inv.kind = "read" THEN Read(rev, c, inv.path, inv.params, inv.t)
  ELSE Write(rev, c, inv.path, inv.payload, inv.t)
\* The method got its response and failed on it: the response did not decode,
\* or its status was not "success".
FailedOnResponse ==
  /\ pc = "returned" /\ ~ret.panicked
  /\ ret.helper.err = NoError
  /\ ret.err # NoError
\* The client of the other key gets the same response.
OtherGetsResponse == ~HelperOut(OtherKey(client)).panicked /\ HelperOut(OtherKey(client)).err = NoError

\* C22: when a method fails on the response, by a decode failure or a status
\* other than "success", its error does not hold the API key, and the client
\* that differs in its API key alone returns the same error for the same call
\* and response.
C22_ErrorsIndependentOfKey ==
  (FailedOnResponse /\ OtherGetsResponse) =>
    /\ MethodReturn(inv.name, rev, HelperOut(client)) = ret
    /\ MethodReturn(inv.name, rev, HelperOut(OtherKey(client))).err = ret.err
    /\ ~HasSubstring(ret.err, client.apiKey)
\* SetCampaignName with the key K1, answered the status failed, returned the
\* error the client with the other key returns.
C22_Witness ==
  /\ FailedOnResponse /\ OtherGetsResponse
  /\ inv.name = "SetCampaignName" /\ inv.t = Responds(StatusDoc(<<"failed">>))
  /\ client.apiKey = <<"K1">>
  /\ ret.err = <<"failed to set campaign name", ": ", "failed">>
  /\ ret.req.body # HelperOut(OtherKey(client)).req.body

\* The HTTP method and the path each endpoint method dispatches to.
EndpointOf(name) ==
  CASE name = "SetCampaignName" -> <<"POST", Path(<<"campaign", "set", "name">>)>>
    [] name = "SetCampaignAccounts" -> <<"POST", Path(<<"campaign", "set", "accounts">>)>>
    [] name = "AddSendingAccount" -> <<"POST", Path(<<"campaign", "add", "account">>)>>
    [] name = "RemoveSendingAccount" -> <<"POST", Path(<<"campaign", "remove", "account">>)>>
    [] name = "LaunchCampaign" -> <<"POST", Path(<<"campaign", "launch">>)>>
    [] name = "PauseCampaign" -> <<"POST", Path(<<"campaign", "pause">>)>>
    [] name = "SetCampaignSchedule" -> <<"POST", Path(<<"campaign", "set", "schedules">>)>>
    [] name = "DeleteLeadsFromCampaign" -> <<"POST", Path(<<"lead", "delete">>)>>
    [] name = "UpdateLeadStatus" -> <<"POST", Path(<<"lead", "update", "status">>)>>
    [] name = "UpdateLeadVariable" -> <<"POST", Path(<<"lead", "data", "update">>)>>
    [] name = "SetLeadVariable" -> <<"POST", Path(<<"lead", "data", "set">>)>>
    [] name = "DeleteLeadVariables" -> <<"POST", Path(<<"lead", "data", "update">>)>>
    [] name = "EnableWarmup" -> <<"POST", Path(<<"account", "warmup", "enable">>)>>
    [] name = "PauseWarmup" -> <<"POST", Path(<<"account", "warmup", "pause">>)>>
    [] name = "MarkAccountAsFixed" -> <<"POST", Path(<<"account", "mark_fixed">>)>>
    [] name = "MarkAllAccountsAsFixed" -> <<"POST", Path(<<"account", "mark_fixed">>)>>
    [] name = "DeleteAccount" -> <<"POST", Path(<<"account", "delete">>)>>
    [] name = "AddEntriesToBlocklist" -> <<"POST", Path(<<"blocklist", "add", "entries">>)>>
    [] name = "CheckAccountVitals" -> <<"POST", Path(<<"account", "test", "vitals">>)>>
    [] name = "AddLeadsToCampaign" -> <<"POST", Path(<<"lead", "add">>)>>
    [] name = "Authenticate" -> <<"GET", Path(<<"authenticate">>)>>
    [] name = "ListCampaigns" -> <<"GET", Path(<<"campaign", "list">>)>>
    [] name = "GetCampaignName" -> <<"GET", Path(<<"campaign", "get", "name">>)>>
    [] name = "GetCampaignAccounts" -> <<"GET", Path(<<"campaign", "get", "accounts">>)>>
    [] name = "GetCampaignSummary" -> <<"GET", Path(<<"campaign", "summary">>)>>
    [] name = "GetCampaignCount" -> <<"GET", Path(<<"analytics", "campaign", "count">>)>>
    [] name = "GetLeadFromCampaign" -> <<"GET", Path(<<"lead", "get">>)>>
    [] name = "ListAccounts" -> <<"GET", Path(<<"account", "list">>)>>
EndpointMethods ==
  {"SetCampaignName", "SetCampaignAccounts", "AddSendingAccount",
   "RemoveSendingAccount", "LaunchCampaign", "PauseCampaign", "SetCampaignSchedule",
   "DeleteLeadsFromCampaign", "UpdateLeadStatus", "UpdateLeadVariable",
   "SetLeadVariable", "DeleteLeadVariables", "EnableWarmup", "PauseWarmup",
   "MarkAccountAsFixed", "MarkAllAccountsAsFixed", "DeleteAccount",
   "AddEntriesToBlocklist", "CheckAccountVitals", "AddLeadsToCampaign", "Authenticate",
   "ListCampaigns", "GetCampaignName", "GetCampaignAccounts", "GetCampaignSummary",
   "GetCampaignCount", "GetLeadFromCampaign", "ListAccounts"}
\* The table is the model's: a dispatched request goes to the endpoint the
\* table gives its method.
EndpointTableMatches ==
  (pc = "returned" /\ ret.req.sent) =>
    /\ inv.name \in EndpointMethods
    /\ EndpointOf(inv.name) = <<ret.req.method, inv.path>>

\* C23: the method and path a request is dispatched to belong to the endpoint
\* method that dispatched it and to no other endpoint method.
C23_OneMethodPerEndpoint ==
  (pc = "returned" /\ ret.req.sent) =>
    \A other \in EndpointMethods \ {inv.name} :
      EndpointOf(other) # <<ret.req.method, inv.path>>

\* A status-checked method was answered a JSON object without a status.
AnsweredWithoutStatus ==
  /\ Answered /\ inv.name \in StatusMethods
  /\ inv.t.bytes.kind = "object" /\ StatusMembers(inv.t.bytes) = <<>>
\* What the helper would have returned had the response said "status": "".
WithEmptyStatus(out) ==
  [out EXCEPT !.data = JObj(<<Member("status", JStr(<<>>))>> \o out.data.members)]

\* C24: a status-checked method answered a well-formed JSON object without a
\* status field returns an error, the one it returns for the same object with
\* an empty status.
C24_AbsentStatusFails ==
  AnsweredWithoutStatus =>
    /\ ~ret.panicked
    /\ ret.err # NoError
    /\ ret.err = MethodReturn(inv.name, rev, WithEmptyStatus(HelperOut(client))).err
\* EnableWarmup answered {} returned its failure.
C24_Witness ==
  /\ AnsweredWithoutStatus
  /\ inv.name = "EnableWarmup" /\ inv.t.bytes = JObj(<<>>)
  /\ ret.err = Err("failed to enable warmup")

\* json.Marshal refuses the payload of a write.
MarshalFails == pc = "returned" /\ inv.kind = "write" /\ ~Marshalable(inv.payload)

\* C25: a call whose body json.Marshal refuses, or whose request
\* http.NewRequest refuses, returns an error, has taken no token and has
\* dispatched no request; and no call takes a token without dispatching.
C25_FailureBeforeDispatch ==
  /\ (MarshalFails \/ ConstructionFails) =>
       /\ ~ret.panicked
       /\ ret.err # NoError
       /\ ret.helper.data = NilData
       /\ ret.events = <<>>
       /\ ~ret.req.sent
  /\ (pc = "returned" /\ ~ret.req.sent) => (ret.events = <<>> /\ (ret.panicked \/ ret.err # NoError))
\* UpdateLeadVariable with a variable json.Marshal refuses returned the error
\* of post, and nothing was taken or sent.
C25_Witness ==
  /\ MarshalFails /\ inv.name = "UpdateLeadVariable"
  /\ HasPrefix(ret.err, <<"failed to update lead variable", ": ", "failed to marshal body">>)
  /\ ret.events = <<>> /\ ~ret.req.sent

\* The zero values of the result types: nil, a nil slice, "", 0, the zero lead,
\* two nil slices.
ZeroResults ==
  {GoNil, GoNilSlice, GoString(<<>>), GoInt(FALSE, 0, 0), ZeroLead,
   VitalsLists(GoNilSlice, GoNilSlice)}

\* C26: a method that returns an error returns the zero value of its result
\* beside it.
C26_NoDataWithError ==
  (pc = "returned" /\ ~ret.panicked /\ ret.err # NoError) => ret.val \in ZeroResults

\* GetLeadFromCampaign, answered one lead whose timestamp does not parse,
\* returned the zero lead and the error, not the lead it had decoded.
C26_Witness ==
  /\ Answered /\ inv.name = "GetLeadFromCampaign"
  /\ inv.t.bytes = JArr(<<LeadDoc(<<"l1">>, BadStamp)>>)
  /\ ret.val = ZeroLead
  /\ ret.err = Wrap("failed to parse timestamp", TimeParseError)

\* ListAccounts was answered an object whose status is "success".
ListAnswered ==
  /\ Answered /\ inv.name = "ListAccounts"
  /\ StatusMembers(inv.t.bytes) # <<>> /\ StatusValue(inv.t.bytes) = JStr(Success)
\* The accounts array of the response.
RawAccounts ==
  IF HasKey(inv.t.bytes.members, "accounts")
  THEN Lookup(inv.t.bytes.members, "accounts").items ELSE <<>>
RawStamp(i, key) == ParseRFC3339(Lookup(RawAccounts[i].members, key).s)
AllStampsParse ==
  \A i \in 1..Len(RawAccounts) :
    RawStamp(i, "timestamp_created").ok /\ RawStamp(i, "timestamp_updated").ok

\* C27: ListAccounts returns either the accounts of the response, one for one
\* and in their order, or, when a timestamp of any account is no RFC 3339
\* time, a nil list and an error.
C27_ListAccountsAllOrNothing ==
  ListAnswered =>
    /\ ~ret.panicked
    /\ ~AllStampsParse => (ret.val = GoNilSlice /\ ret.err # NoError)
    /\ AllStampsParse =>
         /\ ret.err = NoError
         /\ ~ret.val.nil
         /\ Len(ret.val.items) = Len(RawAccounts)
         /\ \A i \in 1..Len(RawAccounts) :
              /\ Get(ret.val.items[i], "Email").s = Lookup(RawAccounts[i].members, "email").s
              /\ Get(ret.val.items[i], "TimestampCreated")
                   = GoTime(RawStamp(i, "timestamp_created").time)
              /\ Get(ret.val.items[i], "TimestampUpdated")
                   = GoTime(RawStamp(i, "timestamp_updated").time)
\* The first account parsed and the second did not: nothing was returned but
\* the error.
C27_Witness ==
  /\ ListAnswered
  /\ Len(RawAccounts) = 2
  /\ RawStamp(1, "timestamp_created").ok /\ RawStamp(1, "timestamp_updated").ok
  /\ ~RawStamp(2, "timestamp_updated").ok
  /\ ret.val = GoNilSlice
  /\ ret.err = Wrap("failed to parse timestamp updated", TimeParseError)

\* The error option opt returns, whatever the options before it set.
OptionError(opt) == ApplyOption(rev, ZeroOptions, opt, 0).err
\* The options New was handed that return an error, by their place.
Failing == {i \in 1..Len(newArgs.opts) : OptionError(newArgs.opts[i]) # NoError}
FirstFailing == CHOOSE i \in Failing : \A j \in Failing : i <= j

\* C28: New runs its options in the order given.  The first that fails ends
\* the construction with its error, and no option after it runs.  When none
\* fails, a field holds what the last option for it carried, and the default
\* when no option names it or the host given last is empty.
C28_OptionsInOrder ==
  newArgs.called =>
    /\ Failing # {} =>
         /\ client.nil
         /\ newErr = OptionError(newArgs.opts[FirstFailing])
         /\ newArgs.applied = FirstFailing - 1
    /\ Failing = {} =>
         /\ ~client.nil /\ newErr = NoError
         /\ newArgs.applied = Len(newArgs.opts)
         /\ client.options.host =
              IF Given("WithHost") = <<>> THEN DefaultHost
              ELSE IF LastGiven("WithHost").host = <<>> THEN DefaultHost
              ELSE LastGiven("WithHost").host
         /\ client.options.apiVersion =
              IF Given("WithApiVersion") = <<>> THEN DefaultApiVersion
              ELSE LastGiven("WithApiVersion").version
         /\ Given("WithRateLimit") = <<>> => client.options.rateLimit.rate = DefaultRate
         /\ Given("WithHttpClient") = <<>> => client.options.httpClient = DefaultHttpClient
\* New("K1", WithApiVersion(0), WithApiVersion(-1)) returned the error of the
\* first option and ran neither to the end.
C28_Witness ==
  /\ newArgs.called
  /\ newArgs.opts = <<WithApiVersion(0), WithApiVersion(0 - 1)>>
  /\ client.nil
  /\ newErr = <<"invalid api version", ": ", "0">>
  /\ newArgs.applied = 0

\* MarkAccountAsFixed was called with the empty string, or
\* MarkAllAccountsAsFixed was called, and the request went out.
MarkedEmpty ==
  /\ pc = "returned" /\ inv.name = "MarkAccountAsFixed"
  /\ inv.payload.fields[1].val = GoString(<<>>)
  /\ ret.req.sent
MarkedAll == pc = "returned" /\ inv.name = "MarkAllAccountsAsFixed" /\ ret.req.sent
\* The one request either of them sends: a POST to account/mark_fixed whose
\* body is the object that holds api_key alone.
MarkFixedRequest ==
  Request("POST", buildBodyUrl(rev, client, Path(<<"account", "mark_fixed">>)),
          JObj(<<Member("api_key", JStr(client.apiKey))>>), "application/json")

\* C29: MarkAccountAsFixed("") and MarkAllAccountsAsFixed() send the same
\* request: the same method and URL, and a body that holds api_key and no
\* email member.
C29_MarkEmptyIsMarkAll ==
  (MarkedEmpty \/ MarkedAll) => ret.req = MarkFixedRequest
\* MarkAccountAsFixed("") sent the request with the api_key alone and was
\* answered success.
C29_Witness ==
  /\ MarkedEmpty
  /\ ret.req.body = JObj(<<Member("api_key", JStr(client.apiKey))>>)
  /\ ret.err = NoError

====
